---- MODULE Spec2Model ----
(***************************************************************************)
(* A model of the unischema validation engine: the synchronous recursive   *)
(* walk (src/src/core/engine.ts), the validator registry                   *)
(* (src/src/core/validators.ts), the schema composition operators          *)
(* (src/unnamed/part_009) and the asynchronous engine with its debounce    *)
(* registry and timeout race (src/src/core/async-engine.ts).               *)
(***************************************************************************)
EXTENDS Integers, Sequences, FiniteSets, TLC

VARIABLES
    schema,            \* the SchemaDefinition handed to validate()
    data,              \* the input object handed to validate()
    options,           \* the ValidationOptions of the last validate() call
    result,            \* what the last validate() call returned (or that it threw)
    pc,                \* "ready" before the call, "done" after it
    customValidators,  \* validators.ts: the Map of user-registered validators
    aschema,           \* the SchemaDefinition handed to the validateAsync() calls
    calls,             \* the validateAsync() calls made so far, in call order
    tasks,             \* the async rule executions launched so far, in launch order
    debounceCache,     \* async-engine.ts: the Map key -> DebounceCache
    builders,          \* the field builder objects created so far, by identity
    schemas            \* the SchemaBuilder objects created so far, by identity

syncVars == <<schema, data, options, result, pc, customValidators>>
asyncVars == <<aschema, calls, tasks, debounceCache>>
composeVars == <<builders, schemas>>

(***************************************************************************)
(* JavaScript values.  Every value is a record of one shape, so that any   *)
(* two values can be compared: t is the runtime kind, n the number, s the  *)
(* characters of a string, a the elements of an array, o the own           *)
(* properties of an object.  Thrown stands for "the callback threw".       *)
(***************************************************************************)
Val(t, n, s, a, o) == [t |-> t, n |-> n, s |-> s, a |-> a, o |-> o]
Undefined == Val("undefined", 0, <<>>, <<>>, <<>>)
Null == Val("null", 0, <<>>, <<>>, <<>>)
Thrown == Val("throw", 0, <<>>, <<>>, <<>>)
Str(cs) == Val("string", 0, cs, <<>>, <<>>)
Num(k) == Val("number", k, <<>>, <<>>, <<>>)
Arr(xs) == Val("array", 0, <<>>, xs, <<>>)
Obj(f) == Val("object", 0, <<>>, <<>>, f)

EmptyString == Str(<<>>)
\* a valid Date object: its day, relative to the clock, and its time of day
Date(day, time) == [t |-> "date", n |-> 0, s |-> <<day, time>>, a |-> <<>>, o |-> <<>>]
isArray(v) == v.t = "array"
isObjectLike(v) == v.t \in {"object", "array", "null", "date"}

\* data[fieldName]: a missing property reads as undefined
Get(obj, k) == IF obj.t = "object" /\ k \in DOMAIN obj.o THEN obj.o[k] ELSE Undefined
ObjectKeys(obj) == IF obj.t = "object" THEN DOMAIN obj.o ELSE {}

(***************************************************************************)
(* Field paths.  A path string is kept as its sequence of tokens (names,   *)
(* ".", "[", an index, "]") so that String.split('.') can be computed.     *)
(***************************************************************************)
JoinPath(basePath, fieldName) ==
    IF basePath # <<>> THEN basePath \o <<".", fieldName>> ELSE <<fieldName>>

ItemPath(path, i) == path \o <<"[", ToString(i), "]">>

RECURSIVE SplitDot(_)
\* path.split('.'): the segments between the "." tokens, empty ones included
SplitDot(toks) ==
    IF \A k \in 1..Len(toks) : toks[k] # "."
    THEN <<toks>>
    ELSE LET k == CHOOSE j \in 1..Len(toks) :
                      toks[j] = "." /\ \A m \in 1..(j - 1) : toks[m] # "."
         IN <<SubSeq(toks, 1, k - 1)>> \o SplitDot(SubSeq(toks, k + 1, Len(toks)))

\* context.path.split('.').filter(p => p !== '')
PathOf(path) == SelectSeq(SplitDot(path), LAMBDA seg : seg # <<>>)

(***************************************************************************)
(* Errors.  "No error" (null) is the empty sequence, an error a sequence   *)
(* of one record.                                                          *)
(***************************************************************************)
NoError == <<>>

createError(path, code, message, soft) ==
    <<[field |-> path, path |-> <<>>, code |-> code, message |-> message,
       severity |-> IF soft THEN "soft" ELSE "hard"]>>

\* { ...error, path: context.path.split('.').filter(p => p !== '') }
WithPath(error, path) == [error EXCEPT !.path = PathOf(path)]

\* message || default
Or(message, default) == IF message # "" THEN message ELSE default

(***************************************************************************)
(* User callbacks.  A callback is named by what it does.                   *)
(*   preprocess / transform:  "orDefault"  v => v ?? 'default'             *)
(*                            "substring"  s => s.substring(0, 2)          *)
(*   custom validate:         "alwaysTrue", "alwaysFalse",                 *)
(*                            "failWithMessage" ({valid:false, message}),  *)
(*                            "throws"                                     *)
(***************************************************************************)
DefaultString == Str(<<"d", "e", "f">>)

ApplyFn(fn, v) ==
    CASE v = Thrown -> Thrown
      [] fn = "orDefault" -> IF v \in {Undefined, Null} THEN DefaultString ELSE v
      [] fn = "substring" ->
            IF v.t = "string"
            THEN Str(SubSeq(v.s, 1, IF Len(v.s) < 2 THEN Len(v.s) ELSE 2))
            ELSE Thrown   \* TypeError: s.substring is not a function
      [] fn = "null" -> Thrown   \* TypeError: transform is not a function
      [] OTHER -> v

RECURSIVE ApplyTransforms(_, _)
\* for (const transform of fieldDef.transforms) processedValue = transform(processedValue)
ApplyTransforms(transforms, v) ==
    IF transforms = <<>> THEN v
    ELSE ApplyTransforms(Tail(transforms), ApplyFn(Head(transforms), v))

(***************************************************************************)
(* validators.ts: type validators, rule validators, the registry.          *)
(* A validator call returns [threw, error].                                *)
(***************************************************************************)
Returned(error) == [threw |-> FALSE, error |-> error]
Threw == [threw |-> TRUE, error |-> NoError]

typeValidators(type, value, path) ==
    CASE type = "string" ->
            IF value \notin {Undefined, Null} /\ value.t # "string"
            THEN createError(path, "INVALID_TYPE", "Expected string", FALSE)
            ELSE NoError
      [] type = "number" ->
            IF value \notin {Undefined, Null} /\ value.t # "number"
            THEN createError(path, "INVALID_TYPE", "Expected number", FALSE)
            ELSE NoError
      [] type = "date" ->
            CASE value \in {Undefined, Null} \/ value.t = "date" -> NoError
              [] value.t = "string" ->
                    \* new Date('xx') is an invalid date
                    createError(path, "INVALID_DATE", "Invalid date format", FALSE)
              [] OTHER -> createError(path, "INVALID_TYPE", "Expected date", FALSE)
      [] type = "array" ->
            IF value \notin {Undefined, Null} /\ ~isArray(value)
            THEN createError(path, "INVALID_TYPE", "Expected array", FALSE)
            ELSE NoError
      [] type = "object" ->
            IF value \notin {Undefined, Null} /\ (~isObjectLike(value) \/ isArray(value))
            THEN createError(path, "INVALID_TYPE", "Expected object", FALSE)
            ELSE NoError
      [] OTHER -> NoError

\* ruleValidators.required
requiredValidator(value, path) ==
    IF value \in {Undefined, Null, EmptyString} \/ (isArray(value) /\ value.a = <<>>)
    THEN createError(path, "REQUIRED", "This field is required", FALSE)
    ELSE NoError

\* ruleValidators.min
minValidator(value, params, path) ==
    CASE value \in {Undefined, Null} -> NoError
      [] value.t = "number" /\ value.n < params.value ->
            createError(path, "MIN_VALUE", Or(params.message, "Value must be at least min"), params.soft)
      [] value.t = "string" /\ Len(value.s) < params.value ->
            createError(path, "MIN_LENGTH", Or(params.message, "Must be at least min characters"), params.soft)
      [] isArray(value) /\ Len(value.a) < params.value ->
            createError(path, "MIN_ITEMS", Or(params.message, "Must have at least min items"), params.soft)
      [] OTHER -> NoError

\* ruleValidators.custom
customValidator(value, params, path) ==
    CASE params.validate = "" -> Returned(NoError)
      [] params.validate = "throws" -> Threw
      [] params.validate = "alwaysFalse" ->
            Returned(createError(path, "CUSTOM_VALIDATION", Or(params.message, "Validation failed"), params.soft))
      [] params.validate = "failWithMessage" ->
            Returned(createError(path, "CUSTOM_VALIDATION", "fromCallback", params.soft))
      [] OTHER -> Returned(NoError)

(***************************************************************************)
(* Rule parameters that hold a pattern.  params.pattern is undefined, a    *)
(* string (the source of a regular expression), a RegExp object, or the    *)
(* empty object that JSON.stringify makes of a RegExp.  The regular        *)
(* expressions of the model are /1$/, /^xx/ and /[object Object]/; a       *)
(* string is matched as its characters, a key "n1" as n, 1.                *)
(***************************************************************************)
NoPattern == [kind |-> "undefined", source |-> ""]
SourceOf(source) == [kind |-> "string", source |-> source]
RegExpOf(source) == [kind |-> "RegExp", source |-> source]
EmptyObject == [kind |-> "object", source |-> ""]

KeyChars(key) ==
    CASE key = "n1" -> <<"n", "1">>
      [] key = "n2" -> <<"n", "2">>
      [] OTHER -> <<key>>

\* regex.test(chars)
RegExpTest(source, chars) ==
    CASE source = "" -> TRUE     \* /(?:)/
      [] source = "1$" -> chars # <<>> /\ chars[Len(chars)] = "1"
      [] source = "^xx" -> Len(chars) >= 2 /\ chars[1] = "x" /\ chars[2] = "x"
      [] source = "[object Object]" ->
            \E i \in 1..Len(chars) : chars[i] \in {"o", "b", "j", "e", "c", "t", " ", "O"}
      [] OTHER -> FALSE

\* new RegExp(pattern).source: a RegExp is copied, anything else converted to a
\* string first (String({}) is "[object Object]", undefined gives /(?:)/)
NewRegExp(pattern) ==
    CASE pattern.kind = "object" -> "[object Object]"
      [] OTHER -> pattern.source

\* ruleValidators.pattern
patternValidator(value, params, path) ==
    IF value \in {Undefined, Null, EmptyString} \/ value.t # "string"
    THEN NoError
    ELSE IF ~RegExpTest(NewRegExp(params.pattern), value.s)
         THEN createError(path, "PATTERN_MISMATCH",
                          Or(params.message, "Value does not match required pattern"), params.soft)
         ELSE NoError

\* ruleValidators.keys (keysValidator): pattern.test(key) for every key of the
\* value; a pattern that is no RegExp has no test method
keysValidator(value, params, path) ==
    CASE value \in {Undefined, Null, EmptyString} -> Returned(NoError)
      [] value.t # "object" -> Returned(NoError)
      [] params.pattern.kind = "undefined" -> Returned(NoError)
      [] params.pattern.kind = "string" /\ params.pattern.source = "" -> Returned(NoError)
      [] ObjectKeys(value) = {} -> Returned(NoError)
      [] params.pattern.kind # "RegExp" -> Threw   \* TypeError: pattern.test is not a function
      [] \E key \in ObjectKeys(value) : ~RegExpTest(params.pattern.source, KeyChars(key)) ->
            Returned(createError(path, "INVALID_KEYS", Or(params.message, "Invalid keys"), params.soft))
      [] OTHER -> Returned(NoError)

\* date.setHours(0, 0, 0, 0)
setHours(date) == [date EXCEPT !.s = <<date.s[1], "00:00">>]

\* ruleValidators.today (todayValidator): parseDate(value) is the Date itself, or
\* null for the strings of the model; both dates are set to midnight and compared
todayValidator(value, params, path) ==
    IF value \in {Undefined, Null, EmptyString} \/ value.t # "date"
    THEN NoError
    ELSE IF setHours(value) # Date("today", "00:00")
         THEN createError(path, "INVALID_TODAY", Or(params.message, "Date must be today"), params.soft)
         ELSE NoError

BuiltinRules == {"required", "min", "custom", "pattern", "keys", "today"}

\* A function registered with registerValidator, named by what it does.
registeredValidator(fn, value, params, path) ==
    IF fn = "rejectAll"
    THEN createError(path, "REGISTERED_RULE", Or(params.message, "rejected"), params.soft)
    ELSE NoError

\* ruleValidators is an object literal: ruleValidators[name] also finds what the
\* object inherits from Object.prototype
ObjectPrototype == {"constructor", "toString", "valueOf", "hasOwnProperty"}

\* getValidator(name): ruleValidators[name] ?? customValidators.get(name)
\* (no rule of the schemas below bears an inherited name)
getValidator(name) ==
    IF name \in BuiltinRules THEN [kind |-> "builtin", fn |-> name]
    ELSE IF name \in ObjectPrototype THEN [kind |-> "inherited", fn |-> name]
    ELSE IF name \in DOMAIN customValidators
         THEN [kind |-> "registered", fn |-> customValidators[name]]
         ELSE [kind |-> "undefined", fn |-> ""]

\* validator(processedValue, params, context)
CallValidator(validator, value, params, path) ==
    CASE validator.kind = "registered" ->
            Returned(registeredValidator(validator.fn, value, params, path))
      [] validator.fn = "required" -> Returned(requiredValidator(value, path))
      [] validator.fn = "min" -> Returned(minValidator(value, params, path))
      [] validator.fn = "pattern" -> Returned(patternValidator(value, params, path))
      [] validator.fn = "keys" -> keysValidator(value, params, path)
      [] validator.fn = "today" -> Returned(todayValidator(value, params, path))
      [] OTHER -> customValidator(value, params, path)

(***************************************************************************)
(* engine.ts: the synchronous walk.                                        *)
(* A FieldDefinition is [type, rules, required, nullable, nullish,         *)
(* preprocess, transforms, schema, items]; "no preprocess" is "", "no      *)
(* nested schema" and "no item definition" are <<>>, otherwise <<x>>.      *)
(* A SchemaDefinition is [fields, strict], fields the ordered list of      *)
(* [name, def] that Object.entries(schema.fields) walks.                   *)
(***************************************************************************)
NoOptions == [errorMap |-> "", abortEarly |-> FALSE, aggregateByField |-> FALSE]

FieldReturn(errors) == [threw |-> FALSE, errors |-> errors]
FieldThrew == [threw |-> TRUE, errors |-> <<>>]

\* { ...rule.params, soft: rule.soft, message: rule.message }
RuleParams(rule) ==
    [value |-> rule.params.value, validate |-> rule.params.validate,
     pattern |-> rule.params.pattern, soft |-> rule.soft, message |-> rule.message]

isMissing(fieldDef, processedValue) ==
    \/ processedValue = Undefined /\ ~fieldDef.nullish
    \/ processedValue = Null /\ ~fieldDef.nullable /\ ~fieldDef.nullish
    \/ processedValue = EmptyString /\ ~fieldDef.nullable /\ ~fieldDef.nullish
    \/ isArray(processedValue) /\ processedValue.a = <<>>

\* else if (value === undefined || value === null || value === '')
OptionalEmpty(value) == value \in {Undefined, Null, EmptyString}

\* options.errorMap(error), then the message-only / full-object distinction
ApplyErrorMap(errorMap, error) ==
    CASE errorMap = "message" -> [error EXCEPT !.message = "mapped"]
      [] errorMap = "downgrade" -> [error EXCEPT !.severity = "soft"]
      [] OTHER -> error

\* buildValidationResult with valid computed from every error, soft ones included
buildValidationResultAnyError(hardErrors, softErrors, opts) ==
    [threw |-> FALSE,
     valid |-> Len(hardErrors) + Len(softErrors) = 0,
     hardErrors |-> hardErrors,
     softErrors |-> softErrors,
     errorsByField |-> <<>>]

\* buildValidationResult
buildValidationResult(hardErrors, softErrors, opts) ==
    [threw |-> FALSE,
     valid |-> Len(hardErrors) = 0,
     hardErrors |-> hardErrors,
     softErrors |-> softErrors,
     errorsByField |->
        IF opts.aggregateByField
        THEN LET all == hardErrors \o softErrors
             IN [f \in {all[i].field : i \in 1..Len(all)} |->
                    SelectSeq(all, LAMBDA e : e.field = f)]
        ELSE <<>>]

ResultThrew ==
    [threw |-> TRUE, valid |-> FALSE, hardErrors |-> <<>>, softErrors |-> <<>>,
     errorsByField |-> <<>>]

\* preprocess, then each transform in order
processedValueOf(fieldDef, value) ==
    ApplyTransforms(fieldDef.transforms,
                    IF fieldDef.preprocess # "" THEN ApplyFn(fieldDef.preprocess, value) ELSE value)

\* FieldStage without the return after the REQUIRED error: a required field that
\* is missing goes on to its rules
FieldStageRequiredFallsThrough(fieldDef, value, path) ==
    LET processedValue == processedValueOf(fieldDef, value)
    IN CASE /\ value \in {Null, Undefined}
            /\ fieldDef.nullish \/ (fieldDef.nullable /\ value = Null)
            /\ ~fieldDef.required -> "nullish"
         [] processedValue = Thrown -> "threw"
         [] typeValidators(fieldDef.type, processedValue, path) # NoError -> "typeError"
         [] ~fieldDef.required /\ OptionalEmpty(value) -> "optionalEmpty"
         [] OTHER -> "rules"

\* Where validateField leaves its straight-line part (engine.ts 27-89): at one of
\* its early returns, by an exception of a callback, or on to the rules.
FieldStage(fieldDef, value, path) ==
    LET processedValue == processedValueOf(fieldDef, value)
    IN CASE /\ value \in {Null, Undefined}
            /\ fieldDef.nullish \/ (fieldDef.nullable /\ value = Null)
            /\ ~fieldDef.required -> "nullish"
         [] processedValue = Thrown -> "threw"
         [] typeValidators(fieldDef.type, processedValue, path) # NoError -> "typeError"
         [] /\ fieldDef.required
            /\ isMissing(fieldDef, processedValue)
            /\ requiredValidator(processedValue, path) # NoError -> "required"
         [] ~fieldDef.required /\ OptionalEmpty(value) -> "optionalEmpty"
         [] OTHER -> "rules"

RECURSIVE RulesLoop(_, _, _, _)
\* for (const rule of fieldDef.rules) { ... }
RulesLoop(rules, processedValue, path, errors) ==
    IF rules = <<>> THEN FieldReturn(errors)
    ELSE LET rule == Head(rules)
             validator == getValidator(rule.type)
         IN IF validator.kind = "undefined"
            THEN RulesLoop(Tail(rules), processedValue, path, errors)   \* console.warn; continue
            ELSE LET r == CallValidator(validator, processedValue, RuleParams(rule), path)
                 IN IF r.threw THEN FieldThrew
                    ELSE RulesLoop(Tail(rules), processedValue, path,
                            IF r.error # NoError
                            THEN Append(errors, WithPath(r.error[1], path))
                            ELSE errors)

RECURSIVE BucketLoop(_, _, _, _)
\* for (let error of errors) { errorMap; bucket; abortEarly }
BucketLoop(errors, hardErrors, softErrors, opts) ==
    IF errors = <<>>
    THEN [aborted |-> FALSE, hardErrors |-> hardErrors, softErrors |-> softErrors]
    ELSE LET error == IF opts.errorMap # ""
                      THEN ApplyErrorMap(opts.errorMap, Head(errors))
                      ELSE Head(errors)
         IN IF error.severity = "soft"
            THEN BucketLoop(Tail(errors), hardErrors, Append(softErrors, error), opts)
            ELSE IF opts.abortEarly
                 THEN [aborted |-> TRUE, hardErrors |-> Append(hardErrors, error),
                       softErrors |-> softErrors]
                 ELSE BucketLoop(Tail(errors), Append(hardErrors, error), softErrors, opts)

RECURSIVE validateField(_, _, _)
RECURSIVE validateSchema(_, _, _, _)
RECURSIVE FieldsLoop(_, _, _, _, _, _)
RECURSIVE ItemsLoop(_, _, _, _, _)

\* for (let i = 0; i < processedValue.length; i++) validateField(fieldDef.items, ...)
ItemsLoop(itemDef, items, i, path, errors) ==
    IF i > Len(items) THEN FieldReturn(errors)
    ELSE LET r == validateField(itemDef, items[i], ItemPath(path, i - 1))
         IN IF r.threw THEN FieldThrew
            ELSE ItemsLoop(itemDef, items, i + 1, path, errors \o r.errors)

\* the tail of validateField: rules, nested schema, array items
RulesNestedItems(fieldDef, processedValue, path) ==
    LET ruled == RulesLoop(fieldDef.rules, processedValue, path, <<>>)
    IN IF ruled.threw THEN FieldThrew
       ELSE LET nested ==
                    IF /\ fieldDef.type = "object" /\ fieldDef.schema # <<>>
                       /\ processedValue \notin {Null, Undefined}
                    THEN validateSchema(fieldDef.schema[1], processedValue, path, NoOptions)
                    ELSE buildValidationResult(<<>>, <<>>, NoOptions)
            IN IF nested.threw THEN FieldThrew
               ELSE LET errors == ruled.errors \o nested.hardErrors \o nested.softErrors
                    IN IF fieldDef.type = "array" /\ fieldDef.items # <<>> /\ isArray(processedValue)
                       THEN ItemsLoop(fieldDef.items[1], processedValue.a, 1, path, errors)
                       ELSE FieldReturn(errors)

validateField(fieldDef, value, path) ==
    LET processedValue == processedValueOf(fieldDef, value)
        stage == FieldStage(fieldDef, value, path)
    IN CASE stage = "nullish" -> FieldReturn(<<>>)
         [] stage = "threw" -> FieldThrew
         [] stage = "typeError" ->
                FieldReturn(<<WithPath(typeValidators(fieldDef.type, processedValue, path)[1], path)>>)
         [] stage = "required" ->
                FieldReturn(<<WithPath(requiredValidator(processedValue, path)[1], path)>>)
         [] stage = "optionalEmpty" -> FieldReturn(<<>>)
         [] OTHER -> RulesNestedItems(fieldDef, processedValue, path)

\* for (const [fieldName, fieldDef] of Object.entries(schema.fields)) { ... }
FieldsLoop(fields, dataObj, basePath, opts, hardErrors, softErrors) ==
    IF fields = <<>> THEN buildValidationResult(hardErrors, softErrors, opts)
    ELSE LET fieldName == Head(fields).name
             value == Get(dataObj, fieldName)
             path == JoinPath(basePath, fieldName)
             r == validateField(Head(fields).def, value, path)
         IN IF r.threw THEN ResultThrew
            ELSE LET b == BucketLoop(r.errors, hardErrors, softErrors, opts)
                 IN IF b.aborted
                    THEN buildValidationResult(b.hardErrors, b.softErrors, opts)
                    ELSE FieldsLoop(Tail(fields), dataObj, basePath, opts,
                                    b.hardErrors, b.softErrors)

validateSchema(schemaDef, dataObj, basePath, opts) ==
    FieldsLoop(schemaDef.fields, dataObj, basePath, opts, <<>>, <<>>)

\* validate(schema, data, options)
validate(schemaDef, dataObj, opts) == validateSchema(schemaDef, dataObj, <<>>, opts)

(***************************************************************************)
(* What a call leaves of the objects it was given.  todayValidator calls   *)
(* setHours on the Date that parseDate returned, which is the caller's     *)
(* Date object when the field has no preprocess or transform replacing it. *)
(* (The inputs of the model hold Dates at the top level only.)             *)
(***************************************************************************)
RECURSIVE RulesEffect(_, _, _)
\* the value object after the rules loop ran on it, as far as it ran
RulesEffect(rules, processedValue, path) ==
    IF rules = <<>> THEN processedValue
    ELSE LET rule == Head(rules)
             validator == getValidator(rule.type)
         IN IF validator.kind = "undefined"
            THEN RulesEffect(Tail(rules), processedValue, path)
            ELSE LET after == IF /\ validator = [kind |-> "builtin", fn |-> "today"]
                                 /\ processedValue.t = "date"
                              THEN setHours(processedValue)
                              ELSE processedValue
                 IN IF CallValidator(validator, processedValue, RuleParams(rule), path).threw
                    THEN after
                    ELSE RulesEffect(Tail(rules), after, path)

\* the value object after validateField(fieldDef, value, context)
valueAfterField(fieldDef, value, path) ==
    IF /\ FieldStage(fieldDef, value, path) = "rules"
       /\ value.t = "date"
       /\ processedValueOf(fieldDef, value) = value
    THEN RulesEffect(fieldDef.rules, value, path)
    ELSE value

RECURSIVE inputAfter(_, _, _)
\* the data object after validateSchema walked the fields, as far as it walked
inputAfter(fields, dataObj, opts) ==
    IF fields = <<>> THEN dataObj
    ELSE LET fieldName == Head(fields).name
             value == Get(dataObj, fieldName)
             r == validateField(Head(fields).def, value, <<fieldName>>)
             after == IF fieldName \in ObjectKeys(dataObj)
                      THEN [dataObj EXCEPT !.o[fieldName] =
                                valueAfterField(Head(fields).def, value, <<fieldName>>)]
                      ELSE dataObj
         IN IF r.threw \/ BucketLoop(r.errors, <<>>, <<>>, opts).aborted
            THEN after
            ELSE inputAfter(Tail(fields), after, opts)

(***************************************************************************)
(* The invocations one validate call makes, in the order it makes them:    *)
(* each rule validator called (with whether it returned a hard error),     *)
(* each nested validateSchema and each array item's validateField.         *)
(***************************************************************************)
Invoke(kind, path, hard) == [kind |-> kind, path |-> path, hard |-> hard]

RECURSIVE RulesInvoked(_, _, _)
\* the validator(processedValue, params, context) calls of the rules loop
RulesInvoked(rules, processedValue, path) ==
    IF rules = <<>> THEN <<>>
    ELSE LET rule == Head(rules)
             validator == getValidator(rule.type)
         IN IF validator.kind = "undefined"
            THEN RulesInvoked(Tail(rules), processedValue, path)
            ELSE LET r == CallValidator(validator, processedValue, RuleParams(rule), path)
                 IN IF r.threw THEN <<Invoke("rule", path, FALSE)>>
                    ELSE <<Invoke("rule", path,
                                      r.error # NoError /\ r.error[1].severity # "soft")>>
                         \o RulesInvoked(Tail(rules), processedValue, path)

RECURSIVE FieldInvoked(_, _, _)
RECURSIVE SchemaInvoked(_, _, _, _)
RECURSIVE ItemsInvoked(_, _, _, _)

\* the validateField calls of the array-item loop, and what they invoke
ItemsInvoked(itemDef, items, i, path) ==
    IF i > Len(items) THEN <<>>
    ELSE <<Invoke("item", ItemPath(path, i - 1), FALSE)>>
         \o FieldInvoked(itemDef, items[i], ItemPath(path, i - 1))
         \o IF validateField(itemDef, items[i], ItemPath(path, i - 1)).threw THEN <<>>
            ELSE ItemsInvoked(itemDef, items, i + 1, path)

\* what validateField(fieldDef, value, context) invokes
FieldInvoked(fieldDef, value, path) ==
    IF FieldStage(fieldDef, value, path) # "rules" THEN <<>>
    ELSE LET processedValue == processedValueOf(fieldDef, value)
             hasNested == /\ fieldDef.type = "object" /\ fieldDef.schema # <<>>
                          /\ processedValue \notin {Null, Undefined}
             hasItems == fieldDef.type = "array" /\ fieldDef.items # <<>> /\ isArray(processedValue)
         IN RulesInvoked(fieldDef.rules, processedValue, path)
            \o IF RulesLoop(fieldDef.rules, processedValue, path, <<>>).threw THEN <<>>
               ELSE (IF hasNested
                     THEN <<Invoke("nested", path, FALSE)>>
                          \o SchemaInvoked(fieldDef.schema[1].fields, processedValue, path, NoOptions)
                     ELSE <<>>)
                    \o IF hasNested /\ validateSchema(fieldDef.schema[1], processedValue, path, NoOptions).threw
                       THEN <<>>
                       ELSE IF hasItems
                            THEN ItemsInvoked(fieldDef.items[1], processedValue.a, 1, path)
                            ELSE <<>>

\* what the fields loop of validateSchema invokes, up to its return
SchemaInvoked(fields, dataObj, basePath, opts) ==
    IF fields = <<>> THEN <<>>
    ELSE LET value == Get(dataObj, Head(fields).name)
             path == JoinPath(basePath, Head(fields).name)
             r == validateField(Head(fields).def, value, path)
         IN FieldInvoked(Head(fields).def, value, path)
            \o IF r.threw \/ BucketLoop(r.errors, <<>>, <<>>, opts).aborted
               THEN <<>>
               ELSE SchemaInvoked(Tail(fields), dataObj, basePath, opts)

(***************************************************************************)
(* The builder DSL and schema() (field.ts, part_009).  A builder is its    *)
(* private fields; build() copies them into a FieldDefinition.  A          *)
(* SchemaBuilder is [definition, _fields].                                 *)
(***************************************************************************)
Rule(type, value, callback, message, soft) ==
    [type |-> type,
     params |-> [value |-> value, validate |-> callback, pattern |-> NoPattern],
     message |-> message, soft |-> soft, async |-> FALSE, debounce |-> 0, timeout |-> 0]

\* a rule whose parameter is a pattern: { type, params: { pattern } }
PatternRule(type, pattern) ==
    [Rule(type, 0, "", "", FALSE) EXCEPT !.params.pattern = pattern]

\* DateFieldBuilder.today()
today(b) == [b EXCEPT !._rules = Append(@, Rule("today", 0, "", "", FALSE))]

\* StringFieldBuilder.pattern(regex): the rule keeps regex.source, a string
pattern(b, regex) ==
    [b EXCEPT !._rules =
        Append(@, PatternRule("pattern",
                              SourceOf(regex.source)))]

Builder(type, rules, required) ==
    [_type |-> type, _rules |-> rules, _required |-> required,
     _nullable |-> FALSE, _nullish |-> FALSE, _preprocess |-> "",
     _transforms |-> <<>>, _schema |-> <<>>, _items |-> <<>>]

\* BaseFieldBuilder.build (ArrayFieldBuilder adds items, ObjectFieldBuilder schema)
build(b) ==
    [type |-> b._type, rules |-> b._rules, required |-> b._required,
     nullable |-> b._nullable, nullish |-> b._nullish,
     preprocess |-> b._preprocess, transforms |-> b._transforms,
     schema |-> b._schema, items |-> b._items]

\* Object.fromEntries(Object.entries(fields).map(([key, builder]) => [key, builder.build()]))
BuildFields(fields) ==
    [i \in 1..Len(fields) |-> [name |-> fields[i].name, def |-> build(fields[i].builder)]]

\* schema(fields)
schemaOf(fields) ==
    [definition |-> [fields |-> BuildFields(fields), strict |-> FALSE],
     _fields |-> fields]

\* strict(baseSchema): schema(baseSchema._fields), then definition.strict = true
strict(baseSchema) ==
    LET built == schemaOf(baseSchema._fields)
    IN [built EXCEPT !.definition.strict = TRUE]

(***************************************************************************)
(* JSON.parse(JSON.stringify(definition)): a function-valued property is   *)
(* left out, a function in an array becomes null, a RegExp becomes {}.     *)
(***************************************************************************)
JSONParams(params) ==
    [value |-> params.value,
     validate |-> "",
     pattern |-> IF params.pattern.kind = "RegExp" THEN EmptyObject ELSE params.pattern]

JSONRule(rule) == [rule EXCEPT !.params = JSONParams(rule.params)]

RECURSIVE JSONField(_)
RECURSIVE JSONRoundTrip(_)

JSONField(def) ==
    [type |-> def.type,
     rules |-> [i \in 1..Len(def.rules) |-> JSONRule(def.rules[i])],
     required |-> def.required, nullable |-> def.nullable, nullish |-> def.nullish,
     preprocess |-> "",
     transforms |-> [i \in 1..Len(def.transforms) |-> "null"],
     schema |-> IF def.schema = <<>> THEN <<>> ELSE <<JSONRoundTrip(def.schema[1])>>,
     items |-> IF def.items = <<>> THEN <<>> ELSE <<JSONField(def.items[1])>>]

JSONRoundTrip(schemaDef) ==
    [fields |-> [i \in 1..Len(schemaDef.fields) |->
                    [name |-> schemaDef.fields[i].name,
                     def |-> JSONField(schemaDef.fields[i].def)]],
     strict |-> schemaDef.strict]

\* field.object(fields): the constructor builds the nested definition
ObjectBuilder(fields, required) ==
    [Builder("object", <<>>, required) EXCEPT
        !._schema = <<[fields |-> BuildFields(fields), strict |-> FALSE]>>]

\* field.array(itemBuilder)
ArrayBuilder(itemBuilder, rules, required) ==
    [Builder("array", rules, required) EXCEPT !._items = <<build(itemBuilder)>>]

(***************************************************************************)
(* The bounds, and the bounded inputs of the synchronous engine.           *)
(***************************************************************************)
MaxStrLen == 3      \* strings of 0..MaxStrLen characters
MaxItems == 2       \* arrays of 0..MaxItems elements
MaxCalls == 3       \* validateAsync() calls per behaviour
MaxSchemas == 4     \* SchemaBuilder objects per behaviour
MaxRules == 2       \* rules a builder of the composition model holds at most

StrOfLen(k) == Str([i \in 1..k |-> "x"])

Strings == {StrOfLen(k) : k \in 0..MaxStrLen}
Numbers == {Num(1), Num(3)}
ItemValues == {StrOfLen(1), StrOfLen(MaxStrLen)}
Arrays == {Arr(xs) : xs \in UNION {[1..k -> ItemValues] : k \in 0..MaxItems}}
Objects == {Obj(<<>>)} \cup {Obj(f) : f \in [{"n1", "n2"} -> ItemValues]}
Dates == {Date("today", "15:30"), Date("yesterday", "00:00")}
Values == {Undefined, Null} \cup Strings \cup Numbers \cup Arrays \cup Objects \cup Dates

\* .min(2) and .minSoft(3, 'warn'), a failing custom rule, a registered rule
minHard == Rule("min", 2, "", "", FALSE)
minSoft == Rule("min", 3, "", "warn", TRUE)
customFail == Rule("custom", 0, "alwaysFalse", "", FALSE)
isEvenRule == Rule("isEven", 0, "", "", FALSE)

StringRuleLists == {<<minSoft, minHard>>, <<customFail>>, <<isEvenRule, minHard>>}

Variants(b) ==
    {b, [b EXCEPT !._nullable = TRUE], [b EXCEPT !._nullish = TRUE],
     [b EXCEPT !._preprocess = "orDefault"], [b EXCEPT !._transforms = <<"substring">>]}

StringBuilders ==
    UNION {Variants(Builder("string", r, req)) : r \in StringRuleLists, req \in BOOLEAN}

NumberBuilders == {Builder("number", <<minHard, minSoft>>, req) : req \in BOOLEAN}

ArrayBuilders ==
    {ArrayBuilder(Builder("string", <<minSoft, minHard>>, FALSE), <<Rule("min", 1, "", "", FALSE)>>, req)
        : req \in BOOLEAN}

NestedFields ==
    <<[name |-> "n1", builder |-> Builder("string", <<minSoft>>, FALSE)],
      [name |-> "n2", builder |-> Builder("string", <<minHard>>, TRUE)]>>

ObjectBuilders == {ObjectBuilder(NestedFields, req) : req \in BOOLEAN}

\* field.string().pattern(/^xx/), and two fields whose rule holds the RegExp
\* itself: { type: 'pattern', params: { pattern: /^xx/ } } on a string and
\* { type: 'keys', params: { pattern: /1$/ } } on an object
PatternBuilders ==
    {pattern(Builder("string", <<>>, FALSE), RegExpOf("^xx")),
     Builder("string", <<PatternRule("pattern", RegExpOf("^xx"))>>, FALSE),
     [ObjectBuilder(NestedFields, FALSE) EXCEPT
        !._rules = <<PatternRule("keys", RegExpOf("1$"))>>]}

\* field.date().today()
DateBuilders == {today(Builder("date", <<>>, FALSE))}

FieldBuildersA ==
    StringBuilders \cup NumberBuilders \cup ArrayBuilders \cup ObjectBuilders
        \cup PatternBuilders \cup DateBuilders
FieldBuildersB == {Builder("string", <<minHard>>, TRUE), Builder("string", <<minSoft>>, FALSE)}
ValuesB == {Undefined, StrOfLen(1), StrOfLen(MaxStrLen)}

Schemas ==
    {schemaOf(<<[name |-> "a", builder |-> ba], [name |-> "b", builder |-> bb]>>)
        : ba \in FieldBuildersA, bb \in FieldBuildersB}

\* The input object: the declared keys a and b, and possibly an undeclared key zz.
Inputs ==
    {Obj([k \in {"a", "b"} |-> IF k = "a" THEN va ELSE vb]) : va \in Values, vb \in ValuesB}
    \cup {Obj([k \in {"a", "b", "zz"} |-> IF k = "a" THEN va ELSE IF k = "b" THEN vb ELSE StrOfLen(1)])
            : va \in Values, vb \in ValuesB}

OptionsSet ==
    [errorMap : {"", "message", "downgrade"}, abortEarly : BOOLEAN, aggregateByField : {FALSE}]
    \cup {[NoOptions EXCEPT !.aggregateByField = TRUE]}

NoResult == [ResultThrew EXCEPT !.threw = FALSE]

(***************************************************************************)
(* The synchronous engine as a state machine: a schema is built, possibly  *)
(* recomposed, validators are registered, and validate() is called once.   *)
(***************************************************************************)
Init ==
    /\ schema \in Schemas
    /\ data \in Inputs
    /\ options = NoOptions
    /\ result = NoResult
    /\ pc = "ready"
    /\ customValidators = <<>>
    /\ aschema = [fields |-> <<>>, strict |-> FALSE]
    /\ calls = <<>>
    /\ tasks = <<>>
    /\ debounceCache = <<>>
    /\ builders = <<>>
    /\ schemas = <<>>

\* registerValidator(name, validator): customValidators.set(name, validator)
\* The caller registers before its first validate() call (pc "ready") or between
\* two calls (pc "done", then "registered").
registerValidator(name, fn) ==
    /\ pc \in {"ready", "done"}
    /\ customValidators' =
          [k \in DOMAIN customValidators \cup {name} |->
              IF k = name THEN fn ELSE customValidators[k]]
    /\ customValidators' # customValidators
    /\ pc' = IF pc = "done" THEN "registered" ELSE pc
    /\ UNCHANGED <<schema, data, options, result>>
    /\ UNCHANGED <<asyncVars, composeVars>>

\* const StrictSchema = strict(BaseSchema)
ApplyStrict ==
    /\ pc = "ready"
    /\ ~schema.definition.strict
    /\ schema' = strict(schema)
    /\ UNCHANGED <<data, options, result, pc, customValidators>>
    /\ UNCHANGED <<asyncVars, composeVars>>

\* const result = validate(schema.definition, data, opts)
Validate(opts) ==
    /\ pc = "ready"
    /\ options' = opts
    /\ result' = validate(schema.definition, data, opts)
    /\ data' = inputAfter(schema.definition.fields, data, opts)
    /\ pc' = "done"
    /\ UNCHANGED <<schema, customValidators>>
    /\ UNCHANGED <<asyncVars, composeVars>>

\* the same call once more: validate(schema.definition, data, opts)
ValidateAgain ==
    /\ pc \in {"done", "registered"}
    /\ result' = validate(schema.definition, data, options)
    /\ data' = inputAfter(schema.definition.fields, data, options)
    /\ pc' = "repeated"
    /\ UNCHANGED <<schema, options, customValidators>>
    /\ UNCHANGED <<asyncVars, composeVars>>

\* const deserialized = JSON.parse(JSON.stringify(schema.definition));
\* const deserializedResult = validate(deserialized, data)
ValidateDeserialized ==
    /\ pc = "done"
    /\ options = NoOptions
    /\ result' = validate(JSONRoundTrip(schema.definition), data, NoOptions)
    /\ data' = inputAfter(JSONRoundTrip(schema.definition).fields, data, NoOptions)
    /\ pc' = "deserialized"
    /\ UNCHANGED <<schema, options, customValidators>>
    /\ UNCHANGED <<asyncVars, composeVars>>

Next ==
    \/ \E fn \in {"rejectAll"} : registerValidator("isEven", fn)
    \/ ApplyStrict
    \/ \E opts \in OptionsSet : Validate(opts)
    \/ ValidateAgain
    \/ ValidateDeserialized

vars == <<schema, data, options, result, pc, customValidators,
          aschema, calls, tasks, debounceCache, builders, schemas>>

Spec == Init /\ [][Next]_vars

(***************************************************************************)
(* The registry on its own: one schema with a registered rule, one input,  *)
(* and registerValidator calls under several names before, or between,     *)
(* the validate() calls.                                                   *)
(***************************************************************************)
Tags == {"isEven", "isOdd", "min", "toString"}
Validators == {"rejectAll", "acceptAll", "acceptEven"}

InitRegistry ==
    /\ Init
    /\ schema = schemaOf(<<[name |-> "a", builder |-> Builder("string", <<isEvenRule, minHard>>, FALSE)],
                           [name |-> "b", builder |-> Builder("string", <<minHard>>, TRUE)]>>)
    /\ data = Obj([k \in {"a", "b"} |-> StrOfLen(1)])

NextRegistry ==
    \/ \E name \in Tags, fn \in Validators : registerValidator(name, fn)
    \/ Validate(NoOptions)
    \/ ValidateAgain

SpecRegistry == InitRegistry /\ [][NextRegistry]_vars

(***************************************************************************)
(* part_009: the composition operators, on objects with identity.          *)
(* builders[id] is a field builder object.  schemas[id] is a SchemaBuilder *)
(* object: its definition (definition.passthrough and definition.catchall  *)
(* are kept beside the record) and _fields, the list of [name, builder],   *)
(* builder being the identity of a builder object.  An operator never      *)
(* writes to a _fields object, so the list stands for the object.  A       *)
(* builder object holds its _rules array by reference: _rulesId is the     *)
(* identity of the array, which Object.assign hands on to a clone.         *)
(***************************************************************************)
\* a builder object: the builder's fields and the identity of its _rules array
BuilderObject(b, rulesId) ==
    [_type |-> b._type, _rules |-> b._rules, _required |-> b._required,
     _nullable |-> b._nullable, _nullish |-> b._nullish, _preprocess |-> b._preprocess,
     _transforms |-> b._transforms, _schema |-> b._schema, _items |-> b._items,
     _rulesId |-> rulesId]

\* a clone that is no copy: _required is written to the builder itself as well
cloneBuilderInPlace(bs, id, required) ==
    Append([bs EXCEPT ![id]._required = required], [bs[id] EXCEPT !._required = required])

\* const clonedBuilder = Object.create(Object.getPrototypeOf(builder));
\* Object.assign(clonedBuilder, builder); clonedBuilder._required = required
\* (the clone is the last builder of the result)
cloneBuilder(bs, id, required) == Append(bs, [bs[id] EXCEPT !._required = required])

\* deepPartial's nested schema: a BaseFieldBuilder per nested definition, with
\* _required false and neither schema nor items, built again
deepNested(schemaDef) ==
    [fields |-> [i \in 1..Len(schemaDef.fields) |->
                    [name |-> schemaDef.fields[i].name,
                     def |-> [schemaDef.fields[i].def EXCEPT
                                !.required = FALSE, !.schema = <<>>, !.items = <<>>]]],
     strict |-> FALSE]

RECURSIVE CloneEach(_, _, _, _, _)
\* for (const [key, builder] of Object.entries(baseSchema._fields)): the builders
\* of the keys in keySet are cloned with _required set (and, for deepPartial,
\* with the nested schema of an object builder made deeply partial), the other
\* builders are kept
CloneEach(bs, fields, keySet, required, deep) ==
    IF fields = <<>> THEN [builders |-> bs, fields |-> <<>>]
    ELSE LET f == Head(fields)
             cloned == f.name \in keySet
             copied == cloneBuilder(bs, f.builder, required)
             bs1 == CASE ~cloned -> bs
                      [] deep /\ bs[f.builder]._type = "object" /\ bs[f.builder]._schema # <<>> ->
                            [copied EXCEPT ![Len(copied)]._schema =
                                <<deepNested(bs[f.builder]._schema[1])>>]
                      [] OTHER -> copied
             rest == CloneEach(bs1, Tail(fields), keySet, required, deep)
         IN [builders |-> rest.builders,
             fields |-> <<[name |-> f.name,
                           builder |-> IF cloned THEN Len(bs1) ELSE f.builder]>> \o rest.fields]

FieldNames(fields) == {fields[i].name : i \in 1..Len(fields)}

\* new Set(keys)
SetOf(keys) == {keys[i] : i \in 1..Len(keys)}

\* { ...fields1, ...fields2 }: a key of both keeps its place and takes the
\* second value, the new keys follow
Spread(fields1, fields2) ==
    [i \in 1..Len(fields1) |->
        IF fields1[i].name \in FieldNames(fields2)
        THEN CHOOSE f \in {fields2[j] : j \in 1..Len(fields2)} : f.name = fields1[i].name
        ELSE fields1[i]]
    \o SelectSeq(fields2, LAMBDA f : f.name \notin FieldNames(fields1))

\* schema(fields): a new SchemaBuilder, its definition built from the builders
newSchema(bs, fields) ==
    [definition |->
        [fields |-> [i \in 1..Len(fields) |->
                        [name |-> fields[i].name, def |-> build(bs[fields[i].builder])]],
         strict |-> FALSE],
     passthrough |-> FALSE,
     catchall |-> <<>>,
     _fields |-> fields]

\* the operator returns: its result is one more SchemaBuilder object
Returns(bs, s) ==
    /\ Len(schemas) < MaxSchemas
    /\ builders' = bs
    /\ schemas' = Append(schemas, s)
    /\ UNCHANGED <<syncVars, asyncVars>>

extend(base, additionalFields) ==
    Returns(builders, newSchema(builders, Spread(schemas[base]._fields, additionalFields)))

pick(base, keys) ==
    Returns(builders,
            newSchema(builders,
                      [i \in 1..Len(SelectSeq(keys, LAMBDA k : k \in FieldNames(schemas[base]._fields))) |->
                          CHOOSE f \in {schemas[base]._fields[j] : j \in 1..Len(schemas[base]._fields)} :
                              f.name = SelectSeq(keys, LAMBDA k : k \in FieldNames(schemas[base]._fields))[i]]))

omit(base, keys) ==
    Returns(builders,
            newSchema(builders, SelectSeq(schemas[base]._fields, LAMBDA f : f.name \notin SetOf(keys))))

partial(base) ==
    LET c == CloneEach(builders, schemas[base]._fields, FieldNames(schemas[base]._fields), FALSE, FALSE)
    IN Returns(c.builders, newSchema(c.builders, c.fields))

deepPartial(base) ==
    LET c == CloneEach(builders, schemas[base]._fields, FieldNames(schemas[base]._fields), FALSE, TRUE)
    IN Returns(c.builders, newSchema(c.builders, c.fields))

passthrough(base) ==
    Returns(builders, [newSchema(builders, schemas[base]._fields) EXCEPT !.passthrough = TRUE])

strictSchema(base) ==
    Returns(builders, [newSchema(builders, schemas[base]._fields) EXCEPT !.definition.strict = TRUE])

catchall(base, fieldBuilder) ==
    Returns(builders, [newSchema(builders, schemas[base]._fields) EXCEPT
                          !.catchall = <<build(builders[fieldBuilder])>>])

required(base, keys) ==
    LET c == CloneEach(builders, schemas[base]._fields, SetOf(keys), TRUE, FALSE)
    IN Returns(c.builders, newSchema(c.builders, c.fields))

optional(base, keys) ==
    LET c == CloneEach(builders, schemas[base]._fields, SetOf(keys), FALSE, FALSE)
    IN Returns(c.builders, newSchema(c.builders, c.fields))

merge(schema1, schema2) ==
    Returns(builders, newSchema(builders, Spread(schemas[schema1]._fields, schemas[schema2]._fields)))

\* builder.min(n, message): this._rules.push({ type: 'min', ... }); the rule
\* lands in the array, which every clone of the builder holds as well
min(id, rule) ==
    /\ Len(builders[id]._rules) < MaxRules
    /\ builders' = [j \in 1..Len(builders) |->
                       IF builders[j]._rulesId = builders[id]._rulesId
                       THEN [builders[j] EXCEPT !._rules = Append(@, rule)]
                       ELSE builders[j]]
    /\ UNCHANGED schemas
    /\ UNCHANGED <<syncVars, asyncVars>>

\* Two schemas over four builders: schema({a, b}) with b an object field that
\* nests another object field, and schema({b, c}); the key lists name declared
\* and undeclared keys.
TwoLevels ==
    ObjectBuilder(<<[name |-> "n", builder |-> ObjectBuilder(NestedFields, TRUE)],
                    [name |-> "m", builder |-> Builder("string", <<minHard>>, TRUE)]>>, TRUE)

KeyLists == {<<"a">>, <<"b", "a">>, <<"c", "zz">>}
SchemaIds == 1..Len(schemas)

InitCompose ==
    /\ schema = schemaOf(<<>>)
    /\ data = Obj(<<>>)
    /\ options = NoOptions
    /\ result = NoResult
    /\ pc = "compose"
    /\ customValidators = <<>>
    /\ aschema = [fields |-> <<>>, strict |-> FALSE]
    /\ calls = <<>>
    /\ tasks = <<>>
    /\ debounceCache = <<>>
    /\ \E req \in BOOLEAN :
          builders = <<BuilderObject(Builder("string", <<minHard>>, req), 1),
                       BuilderObject(TwoLevels, 2),
                       BuilderObject(Builder("number", <<minSoft>>, ~req), 3),
                       BuilderObject(Builder("string", <<>>, FALSE), 4)>>
    /\ schemas = <<newSchema(builders, <<[name |-> "a", builder |-> 1], [name |-> "b", builder |-> 2]>>),
                   newSchema(builders, <<[name |-> "b", builder |-> 3], [name |-> "c", builder |-> 4]>>)>>

NextCompose ==
    \/ \E base \in SchemaIds : extend(base, <<[name |-> "c", builder |-> 1]>>)
    \/ \E base \in SchemaIds, keys \in KeyLists : pick(base, keys)
    \/ \E base \in SchemaIds, keys \in KeyLists : omit(base, keys)
    \/ \E base \in SchemaIds : partial(base)
    \/ \E base \in SchemaIds : deepPartial(base)
    \/ \E base \in SchemaIds : passthrough(base)
    \/ \E base \in SchemaIds : strictSchema(base)
    \/ \E base \in SchemaIds : catchall(base, 4)
    \/ \E base \in SchemaIds, keys \in KeyLists : required(base, keys)
    \/ \E base \in SchemaIds, keys \in KeyLists : optional(base, keys)
    \/ \E schema1 \in SchemaIds, schema2 \in SchemaIds : merge(schema1, schema2)
    \/ \E id \in {1, 4} : min(id, minSoft)

SpecCompose == InitCompose /\ [][NextCompose]_vars

(***************************************************************************)
(* async-engine.ts: the asynchronous engine.                               *)
(*                                                                         *)
(* An async rule is a ValidationRule with async = TRUE, type               *)
(* "refineAsync", params.validate the user's async function, and the       *)
(* optional debounce and timeout (0 stands for "not given").  The user's   *)
(* function is named by what its promise does: "resolvesTrue",             *)
(* "resolvesFalse", "resolvesInvalid" ({valid: false, message}) and        *)
(* "rejects" settle before the timeout, "hangs" never settles, "slowFalse" *)
(* resolves to false before the timeout or after it.                       *)
(*                                                                         *)
(* A task is one execution of an async rule: the promise pushed on         *)
(* asyncValidations.  Its state is "waiting" (debounce timer armed),       *)
(* "cleared" (debounce timer cleared, it will never run), "running" (the   *)
(* validator was invoked and races the timeout) or "finished"              *)
(* (executeAsyncValidator returned result, as the finishedAs-th of the     *)
(* tasks of its invocation); promise is the state of the promise the rules *)
(* loop pushed.                                                            *)
(*                                                                         *)
(* An invocation of validateFieldAsync (for a field, or for an array item) *)
(* is [phase, errors]: "rules" while it awaits Promise.all of its tasks,   *)
(* "items" while it awaits Promise.all of its items, then "resolved" or    *)
(* "rejected".                                                             *)
(***************************************************************************)
DefaultTimeout == 5000

AsyncRule(callback, message, soft, debounce, timeout) ==
    [type |-> "refineAsync",
     params |-> [value |-> 0, validate |-> callback, pattern |-> NoPattern],
     message |-> message, soft |-> soft,
     async |-> TRUE, debounce |-> debounce, timeout |-> timeout]

\* { ...error, path: context.path.split('.') }
WithSplitPath(error, path) == [error EXCEPT !.path = SplitDot(path)]

\* `Async validation timed out after ${timeout}ms`
TimeoutMessage(timeout) == "Async validation timed out after " \o ToString(timeout) \o "ms"

\* executeAsyncValidator: what it returns once the race of validate(value) against
\* the timeout is decided (timedOut: the timeout promise rejected first)
executeAsyncValidator(callback, timedOut, path, message, soft, timeout) ==
    LET error(code, msg) == <<WithSplitPath(createError(path, code, msg, soft)[1], path)>>
    IN CASE timedOut -> error("ASYNC_VALIDATION_ERROR", TimeoutMessage(timeout))
         [] callback \in {"resolvesFalse", "slowFalse"} ->
                error("ASYNC_VALIDATION_FAILED", Or(message, "Async validation failed"))
         [] callback = "resolvesInvalid" -> error("ASYNC_VALIDATION_FAILED", "fromCallback")
         [] callback = "rejects" -> error("ASYNC_VALIDATION_ERROR", "boom")
         [] OTHER -> NoError

\* `${context.path}_${rule.type}`
DebounceKey(path, rule) == path \o <<"_", rule.type>>

NewTask(c, owner, rule, path) ==
    [call |-> c, owner |-> owner, key |-> DebounceKey(path, rule), path |-> path,
     callback |-> rule.params.validate, message |-> rule.message, soft |-> rule.soft,
     timeout |-> IF rule.timeout # 0 THEN rule.timeout ELSE DefaultTimeout,
     debounced |-> rule.debounce > 0,
     state |-> IF rule.debounce > 0 THEN "waiting" ELSE "running",
     promise |-> "pending", result |-> NoError, timedOut |-> FALSE, finishedAs |-> 0]

\* cache.reject(new Error('Validation cancelled - new input received')):
\* rejecting a promise that is already settled does nothing
RejectPromise(task) == [task EXCEPT !.promise = IF @ = "pending" THEN "rejected" ELSE @]

\* clearTimeout(cache.timeoutId): clearing a timer that already fired does nothing
ClearTimeout(task) == [task EXCEPT !.state = IF @ = "waiting" THEN "cleared" ELSE @]

\* createDebouncedValidation: w is [tasks, cache]; an entry of the cache is the task
\* whose timeoutId, resolve and reject the DebounceCache object currently holds
createDebouncedValidation(w, task) ==
    LET key == task.key
        cancelled ==
            IF key \in DOMAIN w.cache
            THEN [w.tasks EXCEPT ![w.cache[key]] = RejectPromise(ClearTimeout(@))]
            ELSE w.tasks
    IN [tasks |-> Append(cancelled, task),
        cache |-> [k \in DOMAIN w.cache \cup {key} |->
                      IF k = key THEN Len(w.tasks) + 1 ELSE w.cache[k]]]

RECURSIVE RulesLoopAsync(_, _, _, _, _, _, _)
\* for (const rule of fieldDef.rules) { ... } of validateFieldAsync: async rules are
\* launched, sync rules are called in place
RulesLoopAsync(w, c, owner, rules, value, path, errors) ==
    IF rules = <<>> THEN [w |-> w, threw |-> FALSE, errors |-> errors]
    ELSE LET rule == Head(rules)
             rest == Tail(rules)
         IN IF rule.async /\ rule.type = "refineAsync"
            THEN IF rule.params.validate = ""
                 THEN RulesLoopAsync(w, c, owner, rest, value, path, errors)
                 ELSE IF rule.debounce > 0
                      THEN RulesLoopAsync(createDebouncedValidation(w, NewTask(c, owner, rule, path)),
                                          c, owner, rest, value, path, errors)
                      ELSE RulesLoopAsync([w EXCEPT !.tasks = Append(@, NewTask(c, owner, rule, path))],
                                          c, owner, rest, value, path, errors)
            ELSE LET validator == getValidator(rule.type)
                 IN IF validator.kind = "undefined"
                    THEN RulesLoopAsync(w, c, owner, rest, value, path, errors)
                    ELSE LET r == CallValidator(validator, value, RuleParams(rule), path)
                         IN IF r.threw THEN [w |-> w, threw |-> TRUE, errors |-> errors]
                            ELSE RulesLoopAsync(w, c, owner, rest, value, path,
                                    IF r.error # NoError
                                    THEN Append(errors, WithSplitPath(r.error[1], path))
                                    ELSE errors)

Invocation(phase, errors) == [phase |-> phase, errors |-> errors]

\* validateFieldAsync up to its first await
FieldStartAsync(w, c, owner, fieldDef, value, path) ==
    LET typeError == typeValidators(fieldDef.type, value, path)
        requiredError == requiredValidator(value, path)
    IN CASE typeError # NoError ->
                [w |-> w, inv |-> Invocation("resolved", <<WithSplitPath(typeError[1], path)>>)]
         [] fieldDef.required /\ requiredError # NoError ->
                [w |-> w, inv |-> Invocation("resolved", <<WithSplitPath(requiredError[1], path)>>)]
         [] ~fieldDef.required /\ OptionalEmpty(value) ->
                [w |-> w, inv |-> Invocation("resolved", <<>>)]
         [] OTHER ->
                LET r == RulesLoopAsync(w, c, owner, fieldDef.rules, value, path, <<>>)
                IN [w |-> r.w,
                    inv |-> Invocation(IF r.threw THEN "rejected" ELSE "rules", r.errors)]

RECURSIVE FieldsStartOneAtATime(_, _, _, _, _, _)
\* the fields taken one at a time: a field that comes after one still awaiting its
\* validators is not started
FieldsStartOneAtATime(w, c, fields, dataObj, f, invs) ==
    IF f > Len(fields) THEN [w |-> w, invs |-> invs]
    ELSE IF invs # <<>> /\ invs[Len(invs)].phase = "rules"
         THEN FieldsStartOneAtATime(w, c, fields, dataObj, f + 1,
                                    Append(invs, Invocation("rules", <<>>)))
         ELSE LET r == FieldStartAsync(w, c, <<f, 0>>, fields[f].def,
                                       Get(dataObj, fields[f].name),
                                       JoinPath(<<>>, fields[f].name))
              IN FieldsStartOneAtATime(r.w, c, fields, dataObj, f + 1, Append(invs, r.inv))

RECURSIVE FieldsStart(_, _, _, _, _, _)
\* Object.entries(schema.fields).map(async ([fieldName, fieldDef]) => ...)
FieldsStart(w, c, fields, dataObj, f, invs) ==
    IF f > Len(fields) THEN [w |-> w, invs |-> invs]
    ELSE LET r == FieldStartAsync(w, c, <<f, 0>>, fields[f].def,
                                  Get(dataObj, fields[f].name), JoinPath(<<>>, fields[f].name))
         IN FieldsStart(r.w, c, fields, dataObj, f + 1, Append(invs, r.inv))

RECURSIVE ItemsStart(_, _, _, _, _, _, _, _)
\* value.map(async (item, i) => validateFieldAsync(fieldDef.items, item, itemContext))
ItemsStart(w, c, f, itemDef, items, i, path, invs) ==
    IF i > Len(items) THEN [w |-> w, invs |-> invs]
    ELSE LET r == FieldStartAsync(w, c, <<f, i>>, itemDef, items[i], ItemPath(path, i - 1))
         IN ItemsStart(r.w, c, f, itemDef, items, i + 1, path, Append(invs, r.inv))

TaskIds == 1..Len(tasks)
CallIds == 1..Len(calls)

RECURSIVE Concat(_)
Concat(seqs) == IF seqs = <<>> THEN <<>> ELSE Head(seqs) \o Concat(Tail(seqs))

InvOf(c, f, i) == IF i = 0 THEN calls[c].fields[f] ELSE calls[c].items[f][i]

SetInv(c, f, i, inv) ==
    IF i = 0 THEN [calls EXCEPT ![c].fields[f] = inv]
    ELSE [calls EXCEPT ![c].items[f][i] = inv]

\* the validateFieldAsync invocations of call c: <<f, 0>> for field f, <<f, i>> for
\* its i-th item
Owners(c) ==
    {<<f, 0>> : f \in 1..Len(calls[c].fields)}
    \cup {o \in (1..Len(calls[c].fields)) \X (1..MaxItems) : o[2] <= Len(calls[c].items[o[1]])}

\* the asyncValidations array of one invocation, in push order
TasksOf(c, f, i) ==
    {t \in 1..Len(tasks) : tasks[t].call = c /\ tasks[t].owner = <<f, i>>}

\* await Promise.all(asyncValidations) with the values taken in the order in which
\* the validations finished
AwaitAllInCompletionOrder(c, f, i) ==
    LET mine == {t \in TasksOf(c, f, i) : tasks[t].finishedAs > 0}
    IN Concat([k \in 1..Cardinality(mine) |->
                  tasks[CHOOSE t \in mine : tasks[t].finishedAs = k].result])

\* await Promise.all(asyncValidations): the values in the order of the array
AwaitAll(c, f, i) ==
    LET mine == SelectSeq(tasks, LAMBDA t : t.call = c /\ t.owner = <<f, i>>)
    IN Concat([k \in 1..Len(mine) |-> mine[k].result])

\* the loop of validateSchemaAsync over results, and its return value
asyncResult(results) ==
    LET errors == Concat(results)
        hardErrors == SelectSeq(errors, LAMBDA e : e.severity # "soft")
        softErrors == SelectSeq(errors, LAMBDA e : e.severity = "soft")
    IN [threw |-> FALSE, valid |-> Len(hardErrors) = 0,
        hardErrors |-> hardErrors, softErrors |-> softErrors, errorsByField |-> <<>>]

(***************************************************************************)
(* validateAsync on a schema none of whose rules is async: asyncValidations *)
(* stays empty, every await continues at once, and the promise settles     *)
(* with a value that depends on the schema and the data only.  The result  *)
(* is [threw, ...] with threw standing for "the promise rejected".         *)
(***************************************************************************)
RECURSIVE validateFieldAsync(_, _, _)
RECURSIVE validateSchemaAsync(_, _, _)

\* Promise.all(value.map(async (item, i) => validateFieldAsync(fieldDef.items, ...)))
ItemsAsync(itemDef, items, path) ==
    LET results == [i \in 1..Len(items) |->
                       validateFieldAsync(itemDef, items[i], ItemPath(path, i - 1))]
    IN IF \E i \in 1..Len(items) : results[i].threw THEN FieldThrew
       ELSE FieldReturn(Concat([i \in 1..Len(items) |-> results[i].errors]))

validateFieldAsync(fieldDef, value, path) ==
    LET start == FieldStartAsync([tasks |-> <<>>, cache |-> <<>>], 0, <<0, 0>>,
                                 fieldDef, value, path).inv
    IN CASE start.phase = "resolved" -> FieldReturn(start.errors)
         [] start.phase = "rejected" -> FieldThrew
         [] OTHER ->
              LET nested ==
                      IF /\ fieldDef.type = "object" /\ fieldDef.schema # <<>>
                         /\ value \notin {Null, Undefined}
                      THEN validateSchemaAsync(fieldDef.schema[1], value, path)
                      ELSE NoResult
                  items ==
                      IF fieldDef.type = "array" /\ fieldDef.items # <<>> /\ isArray(value)
                      THEN ItemsAsync(fieldDef.items[1], value.a, path)
                      ELSE FieldReturn(<<>>)
              IN IF nested.threw \/ items.threw THEN FieldThrew
                 ELSE FieldReturn(start.errors \o nested.hardErrors \o nested.softErrors
                                  \o items.errors)

validateSchemaAsync(schemaDef, dataObj, basePath) ==
    LET fields == schemaDef.fields
        results == [f \in 1..Len(fields) |->
                       validateFieldAsync(fields[f].def, Get(dataObj, fields[f].name),
                                          JoinPath(basePath, fields[f].name))]
    IN IF \E f \in 1..Len(fields) : results[f].threw THEN ResultThrew
       ELSE asyncResult([f \in 1..Len(fields) |-> results[f].errors])

\* validateAsync(schema, data)
validateAsync(schemaDef, dataObj) == validateSchemaAsync(schemaDef, dataObj, <<>>)

(***************************************************************************)
(* The continuations of the awaits.  They run as microtasks, before any    *)
(* timer callback and before any later validateAsync() call.               *)
(***************************************************************************)
CanContinueRules(c, f, i) ==
    /\ InvOf(c, f, i).phase = "rules"
    /\ \A t \in TasksOf(c, f, i) : tasks[t].promise = "resolved"

CanContinueItems(c, f) ==
    /\ calls[c].fields[f].phase = "items"
    /\ \A i \in 1..Len(calls[c].items[f]) : calls[c].items[f][i].phase = "resolved"

CanReject(c, f, i) ==
    \/ /\ InvOf(c, f, i).phase = "rules"
       /\ \E t \in TasksOf(c, f, i) : tasks[t].promise = "rejected"
    \/ /\ i = 0
       /\ calls[c].fields[f].phase = "items"
       /\ \E k \in 1..Len(calls[c].items[f]) : calls[c].items[f][k].phase = "rejected"

CanResolveCall(c) ==
    /\ calls[c].status = "pending"
    /\ \A f \in 1..Len(calls[c].fields) : calls[c].fields[f].phase = "resolved"

CanRejectCall(c) ==
    /\ calls[c].status = "pending"
    /\ \E f \in 1..Len(calls[c].fields) : calls[c].fields[f].phase = "rejected"

Quiescent ==
    \A c \in 1..Len(calls) :
        /\ ~CanResolveCall(c)
        /\ ~CanRejectCall(c)
        /\ \A o \in Owners(c) : ~CanContinueRules(c, o[1], o[2]) /\ ~CanReject(c, o[1], o[2])
        /\ \A f \in 1..Len(calls[c].fields) : ~CanContinueItems(c, f)

\* validateFieldAsync after "await Promise.all(asyncValidations)": the async errors
\* are pushed after the sync ones, then the items of an array are launched
AfterRules(c, f, i) ==
    /\ pc = "async"
    /\ CanContinueRules(c, f, i)
    /\ LET errors == InvOf(c, f, i).errors \o AwaitAll(c, f, i)
           fieldDef == aschema.fields[f].def
           value == Get(calls[c].data, aschema.fields[f].name)
       IN IF i = 0 /\ fieldDef.type = "array" /\ fieldDef.items # <<>> /\ isArray(value)
          THEN LET r == ItemsStart([tasks |-> tasks, cache |-> debounceCache], c, f,
                                   fieldDef.items[1], value.a, 1,
                                   JoinPath(<<>>, aschema.fields[f].name), <<>>)
               IN /\ calls' = [calls EXCEPT ![c].fields[f] = Invocation("items", errors),
                                            ![c].items[f] = r.invs]
                  /\ tasks' = r.w.tasks
                  /\ debounceCache' = r.w.cache
          ELSE /\ calls' = SetInv(c, f, i, Invocation("resolved", errors))
               /\ UNCHANGED <<tasks, debounceCache>>
    /\ UNCHANGED aschema
    /\ UNCHANGED <<syncVars, composeVars>>

\* validateFieldAsync after "await Promise.all(itemValidations)"
AfterItems(c, f) ==
    /\ pc = "async"
    /\ CanContinueItems(c, f)
    /\ calls' = [calls EXCEPT ![c].fields[f] =
                    Invocation("resolved",
                               @.errors \o Concat([i \in 1..Len(calls[c].items[f]) |->
                                                      calls[c].items[f][i].errors]))]
    /\ UNCHANGED <<aschema, tasks, debounceCache>>
    /\ UNCHANGED <<syncVars, composeVars>>

\* an awaited Promise.all rejected: the invocation's own promise rejects
AwaitRejects(c, f, i) ==
    /\ pc = "async"
    /\ CanReject(c, f, i)
    /\ calls' = SetInv(c, f, i, Invocation("rejected", InvOf(c, f, i).errors))
    /\ UNCHANGED <<aschema, tasks, debounceCache>>
    /\ UNCHANGED <<syncVars, composeVars>>

\* validateSchemaAsync after "await Promise.all(fieldValidations)"
CallResolves(c) ==
    /\ pc = "async"
    /\ CanResolveCall(c)
    /\ calls' = [calls EXCEPT
                    ![c].status = "resolved",
                    ![c].result = asyncResult([f \in 1..Len(calls[c].fields) |->
                                                  calls[c].fields[f].errors])]
    /\ UNCHANGED <<aschema, tasks, debounceCache>>
    /\ UNCHANGED <<syncVars, composeVars>>

\* Promise.all(fieldValidations) rejected: the promise of validateAsync() rejects
CallRejects(c) ==
    /\ pc = "async"
    /\ CanRejectCall(c)
    /\ calls' = [calls EXCEPT ![c].status = "rejected"]
    /\ UNCHANGED <<aschema, tasks, debounceCache>>
    /\ UNCHANGED <<syncVars, composeVars>>

(***************************************************************************)
(* The macrotasks: a validateAsync() call, a debounce timer firing, the    *)
(* user's validator settling, the timeout of withTimeout firing.           *)
(***************************************************************************)
\* validateAsync(schema, data): every field's validateFieldAsync runs to its first
\* await, in declaration order
StartCall(d) ==
    /\ pc = "async"
    /\ Quiescent
    /\ Len(calls) < MaxCalls
    /\ LET c == Len(calls) + 1
           r == FieldsStart([tasks |-> tasks, cache |-> debounceCache], c,
                            aschema.fields, d, 1, <<>>)
       IN /\ calls' = Append(calls,
                        [data |-> d, status |-> "pending", result |-> NoResult,
                         fields |-> r.invs,
                         items |-> [f \in 1..Len(aschema.fields) |-> <<>>]])
          /\ tasks' = r.w.tasks
          /\ debounceCache' = r.w.cache
    /\ UNCHANGED aschema
    /\ UNCHANGED <<syncVars, composeVars>>

\* the setTimeout callback of createDebouncedValidation starts: validate(value) is
\* invoked inside executeAsyncValidator
DebounceTimerFires(t) ==
    /\ pc = "async"
    /\ Quiescent
    /\ tasks[t].state = "waiting"
    /\ tasks' = [tasks EXCEPT ![t].state = "running"]
    /\ UNCHANGED <<aschema, calls, debounceCache>>
    /\ UNCHANGED <<syncVars, composeVars>>

\* executeAsyncValidator returned: the plain promise resolves; the debounce callback
\* calls resolve(result) and then debounceCache.delete(key)
TaskFinishes(t, timedOut) ==
    /\ tasks' = [tasks EXCEPT
                    ![t].state = "finished",
                    ![t].timedOut = timedOut,
                    ![t].finishedAs = 1 + Cardinality({o \in TaskIds :
                                              /\ tasks[o].call = tasks[t].call
                                              /\ tasks[o].owner = tasks[t].owner
                                              /\ tasks[o].state = "finished"}),
                    ![t].result = executeAsyncValidator(tasks[t].callback, timedOut,
                                      tasks[t].path, tasks[t].message, tasks[t].soft,
                                      tasks[t].timeout),
                    ![t].promise = IF @ = "pending" THEN "resolved" ELSE @]
    /\ debounceCache' =
          IF tasks[t].debounced
          THEN [k \in DOMAIN debounceCache \ {tasks[t].key} |-> debounceCache[k]]
          ELSE debounceCache
    /\ UNCHANGED <<aschema, calls>>
    /\ UNCHANGED <<syncVars, composeVars>>

\* the promise of validate(value) settles before the timeout
ValidatorSettles(t) ==
    /\ pc = "async"
    /\ Quiescent
    /\ tasks[t].state = "running"
    /\ tasks[t].callback # "hangs"
    /\ TaskFinishes(t, FALSE)

\* the timeout of withTimeout never fires
TimeoutNeverFires(t) ==
    /\ FALSE
    /\ UNCHANGED vars

\* the setTimeout of withTimeout fires before validate(value) settles
TimeoutFires(t) ==
    /\ pc = "async"
    /\ Quiescent
    /\ tasks[t].state = "running"
    /\ tasks[t].callback \in {"hangs", "slowFalse"}
    /\ TaskFinishes(t, TRUE)

(***************************************************************************)
(* The bounded inputs of the asynchronous engine: schemas of two fields u  *)
(* and v, and up to MaxCalls validateAsync() calls on them.                *)
(***************************************************************************)
Field(type, rules, isRequired) == build(Builder(type, rules, isRequired))

direct(callback, soft, timeout) == AsyncRule(callback, "", soft, 0, timeout)
debounced(callback, soft, timeout) == AsyncRule(callback, "", soft, 300, timeout)
customThrows == Rule("custom", 0, "throws", "", FALSE)
customFailSoft == Rule("custom", 0, "alwaysFalse", "", TRUE)

StringField(rules) == Field("string", rules, FALSE)
ArrayOf(itemRules) ==
    build(ArrayBuilder(Builder("string", itemRules, FALSE), <<Rule("min", 1, "", "", FALSE)>>, FALSE))

AsyncSchema(du, rulesV) ==
    [fields |-> <<[name |-> "u", def |-> du],
                  [name |-> "v", def |-> Field("string", rulesV, TRUE)]>>,
     strict |-> FALSE]

AsyncSchemas ==
    {AsyncSchema(StringField(<<direct("resolvesFalse", FALSE, 0), direct("rejects", FALSE, 0)>>),
                 <<direct("resolvesFalse", FALSE, 0)>>),
     AsyncSchema(StringField(<<direct("hangs", TRUE, 50)>>), <<>>),
     AsyncSchema(StringField(<<debounced("resolvesFalse", FALSE, 0)>>), <<>>),
     AsyncSchema(StringField(<<customFailSoft, direct("slowFalse", FALSE, 50)>>), <<>>),
     AsyncSchema(StringField(<<direct("resolvesInvalid", TRUE, 0), minHard>>), <<>>),
     AsyncSchema(StringField(<<direct("resolvesFalse", FALSE, 0), minHard>>), <<>>),
     AsyncSchema(StringField(<<customThrows>>), <<direct("resolvesFalse", FALSE, 0)>>),
     AsyncSchema(StringField(<<debounced("resolvesTrue", FALSE, 0),
                               debounced("resolvesFalse", TRUE, 0)>>), <<>>),
     AsyncSchema(StringField(<<debounced("resolvesFalse", FALSE, 0)>>),
                 <<debounced("hangs", FALSE, 50)>>),
     AsyncSchema(ArrayOf(<<direct("resolvesFalse", FALSE, 0)>>), <<>>),
     AsyncSchema(ArrayOf(<<debounced("resolvesFalse", FALSE, 0)>>), <<>>)}

AsyncValuesU == {StrOfLen(1), EmptyString, Arr([i \in 1..MaxItems |-> StrOfLen(1)])}

AsyncInputs ==
    {Obj([k \in {"u", "v"} |-> IF k = "u" THEN vu ELSE StrOfLen(1)]) : vu \in AsyncValuesU}

InitAsync ==
    /\ schema = schemaOf(<<>>)
    /\ data = Obj(<<>>)
    /\ options = NoOptions
    /\ result = NoResult
    /\ pc = "async"
    /\ customValidators = <<>>
    /\ aschema \in AsyncSchemas
    /\ calls = <<>>
    /\ tasks = <<>>
    /\ debounceCache = <<>>
    /\ builders = <<>>
    /\ schemas = <<>>

NextAsync ==
    \/ \E d \in AsyncInputs : StartCall(d)
    \/ \E t \in TaskIds : DebounceTimerFires(t)
    \/ \E t \in TaskIds : ValidatorSettles(t)
    \/ \E t \in TaskIds : TimeoutFires(t)
    \/ \E c \in CallIds : \E o \in Owners(c) : AfterRules(c, o[1], o[2])
    \/ \E c \in CallIds : \E f \in 1..Len(calls[c].fields) : AfterItems(c, f)
    \/ \E c \in CallIds : \E o \in Owners(c) : AwaitRejects(c, o[1], o[2])
    \/ \E c \in CallIds : CallResolves(c)
    \/ \E c \in CallIds : CallRejects(c)

SpecAsync == InitAsync /\ [][NextAsync]_vars

\* what the event loop does on its own: timers fire, validators settle or time
\* out, continuations of settled promises run.  Calls are the caller's choice.
EventLoop ==
    \/ \E t \in TaskIds : DebounceTimerFires(t)
    \/ \E t \in TaskIds : ValidatorSettles(t)
    \/ \E t \in TaskIds : TimeoutFires(t)
    \/ \E c \in CallIds : \E o \in Owners(c) : AfterRules(c, o[1], o[2])
    \/ \E c \in CallIds : \E f \in 1..Len(calls[c].fields) : AfterItems(c, f)
    \/ \E c \in CallIds : \E o \in Owners(c) : AwaitRejects(c, o[1], o[2])
    \/ \E c \in CallIds : CallResolves(c)
    \/ \E c \in CallIds : CallRejects(c)

\* the asynchronous engine with an event loop that never stops (an armed timer
\* fires, a runnable continuation runs), on the schemas with a validator that
\* never settles or with items
InitAsyncLive ==
    /\ InitAsync
    /\ aschema \in {AsyncSchema(StringField(<<debounced("resolvesFalse", FALSE, 0)>>),
                                <<debounced("hangs", FALSE, 50)>>),
                    AsyncSchema(ArrayOf(<<direct("resolvesFalse", FALSE, 0)>>), <<>>)}

SpecAsyncLive == InitAsyncLive /\ [][NextAsync]_vars /\ WF_vars(EventLoop)

\* both engines: validate() on one schema, or validateAsync() calls on another
SpecBoth == (Init \/ InitAsync) /\ [][Next \/ NextAsync]_vars


(***************************************************************************)
(* Properties of the synchronous engine.                                   *)
(***************************************************************************)
SeqToSet(q) == {q[i] : i \in 1..Len(q)}
AllErrors(r) == r.hardErrors \o r.softErrors
Returned_(r) == pc = "done" /\ ~r.threw

RECURSIVE StripSoftDef(_)
\* The field definition with every soft rule removed, at every depth.
StripSoftDef(def) ==
    [def EXCEPT
        !.rules = SelectSeq(def.rules, LAMBDA rule : ~rule.soft),
        !.schema = IF def.schema = <<>> THEN <<>>
                   ELSE <<[def.schema[1] EXCEPT !.fields =
                             [i \in 1..Len(def.schema[1].fields) |->
                                 [def.schema[1].fields[i] EXCEPT
                                     !.def = StripSoftDef(def.schema[1].fields[i].def)]]]>>,
        !.items = IF def.items = <<>> THEN <<>> ELSE <<StripSoftDef(def.items[1])>>]

StripSoft(schemaDef) ==
    [schemaDef EXCEPT !.fields =
        [i \in 1..Len(schemaDef.fields) |->
            [schemaDef.fields[i] EXCEPT !.def = StripSoftDef(schemaDef.fields[i].def)]]]

\* valid iff no hard error; each error sits in the bucket of its severity
PartitionLaw(r) ==
    /\ r.valid <=> (r.hardErrors = <<>>)
    /\ \A i \in 1..Len(r.hardErrors) : r.hardErrors[i].severity = "hard"
    /\ \A i \in 1..Len(r.softErrors) : r.softErrors[i].severity = "soft"

\* the result of validate(S, D, o) obeys the partition law, and valid is what it
\* would be with every soft rule removed from S
SyncPartitionLaw ==
    Returned_(result) =>
        /\ PartitionLaw(result)
        /\ result.valid = validate(StripSoft(schema.definition), data, options).valid

(***************************************************************************)
(* The order in which the walk produces errors: a field's own errors, then *)
(* those of its nested schema's fields in declaration order, then those of *)
(* its array items in index order.                                         *)
(***************************************************************************)
RECURSIVE WalkField(_, _, _)
RECURSIVE WalkFields(_, _, _)
RECURSIVE WalkItems(_, _, _, _)

WalkFields(fields, dataObj, basePath) ==
    IF fields = <<>> THEN <<>>
    ELSE WalkField(Head(fields).def, Get(dataObj, Head(fields).name),
                   JoinPath(basePath, Head(fields).name))
         \o WalkFields(Tail(fields), dataObj, basePath)

WalkItems(itemDef, items, i, path) ==
    IF i > Len(items) THEN <<>>
    ELSE WalkField(itemDef, items[i], ItemPath(path, i - 1))
         \o WalkItems(itemDef, items, i + 1, path)

WalkField(def, value, path) ==
    IF FieldStage(def, value, path) # "rules"
    THEN validateField(def, value, path).errors
    ELSE LET pv == processedValueOf(def, value)
         IN RulesLoop(def.rules, pv, path, <<>>).errors
            \o (IF def.type = "object" /\ def.schema # <<>> /\ pv \notin {Null, Undefined}
                THEN WalkFields(def.schema[1].fields, pv, path) ELSE <<>>)
            \o (IF def.type = "array" /\ def.items # <<>> /\ isArray(pv)
                THEN WalkItems(def.items[1], pv.a, 1, path) ELSE <<>>)

\* the errors of the whole walk, as options.errorMap hands them to the buckets
WalkOrder(opts) ==
    LET w == WalkFields(schema.definition.fields, data, <<>>)
    IN [i \in 1..Len(w) |-> IF opts.errorMap # "" THEN ApplyErrorMap(opts.errorMap, w[i]) ELSE w[i]]

FirstHard(w) == CHOOSE i \in 1..Len(w) :
                    w[i].severity # "soft" /\ \A j \in 1..(i - 1) : w[j].severity = "soft"

Unflagged == validate(schema.definition, data, [options EXCEPT !.abortEarly = FALSE])

\* C2: with abortEarly, whenever the unflagged call reports a hard error, the
\* flagged call reports exactly the first unflagged hard error, and as soft
\* errors exactly those the walk produced before it.
AbortEarlyFirstHard ==
    (Returned_(result) /\ options.abortEarly /\ ~Unflagged.threw /\ Unflagged.hardErrors # <<>>) =>
        LET w == WalkOrder(options)
        IN /\ result.hardErrors = <<Unflagged.hardErrors[1]>>
           /\ result.softErrors =
                 SelectSeq(SubSeq(w, 1, FirstHard(w) - 1), LAMBDA e : e.severity = "soft")

\* an absent or empty original value: undefined, null, '' or []
AbsentOrEmpty(v) == v \in {Undefined, Null, EmptyString, Arr(<<>>)}

\* the errors reported at the top-level field name or below it
ErrorsUnder(r, name) == {e \in SeqToSet(AllErrors(r)) : e.field[1] = name}

\* C3: a field that is not required and whose original value is absent or
\* empty contributes no error to the result.
OptionalShortCircuit ==
    Returned_(result) =>
        \A i \in 1..Len(schema.definition.fields) :
            LET f == schema.definition.fields[i]
            IN (~f.def.required /\ AbsentOrEmpty(Get(data, f.name))) =>
                    ErrorsUnder(result, f.name) = {}

DeclaredKeys(schemaDef) == {schemaDef.fields[i].name : i \in 1..Len(schemaDef.fields)}
UndeclaredKeys == ObjectKeys(data) \ DeclaredKeys(schema.definition)

\* C4: validating against strict(S) reports one hard error for each key of the
\* input that S does not declare, so such an input is invalid.
StrictRejectsUnknownKeys ==
    (Returned_(result) /\ schema.definition.strict) =>
        /\ \A k \in UndeclaredKeys :
              Cardinality({i \in 1..Len(result.hardErrors) : result.hardErrors[i].field = <<k>>}) = 1
        /\ UndeclaredKeys # {} => ~result.valid

(***************************************************************************)
(* Properties of the asynchronous engine.                                  *)
(***************************************************************************)
Resolved(c) == calls[c].status = "resolved"
Rejected(c) == calls[c].status = "rejected"

\* C1: every result returned by validate() and every result a validateAsync()
\* promise resolves with has valid true exactly when hardErrors is empty, only
\* hard errors in hardErrors and only soft errors in softErrors; and valid does
\* not depend on the soft errors.
PartitionLawBothEngines ==
    /\ SyncPartitionLaw
    /\ \A c \in CallIds : Resolved(c) => PartitionLaw(calls[c].result)

\* a validate() call that returned soft errors only, and valid = true
SoftErrorsOnlyIsValid ==
    /\ Returned_(result)
    /\ result.softErrors # <<>>
    /\ result.hardErrors = <<>>
    /\ result.valid

TasksOfCall(c) == {t \in TaskIds : tasks[t].call = c}
Severity(soft) == IF soft THEN "soft" ELSE "hard"

\* C5: a rule whose validator had not settled when its timeout elapsed (and whose
\* call was not superseded by a later one) yields exactly one
\* ASYNC_VALIDATION_ERROR of the rule's severity, the validateAsync() call that
\* launched it resolves (it does not reject) with that error in its result, and
\* it does so without waiting for the validator.
TimedOutRuleIsReported ==
    \A t \in TaskIds :
        (tasks[t].timedOut /\ tasks[t].promise = "resolved") =>
            LET c == tasks[t].call
                mine(e) == /\ e.field = tasks[t].path
                           /\ e.code = "ASYNC_VALIDATION_ERROR"
                           /\ e.severity = Severity(tasks[t].soft)
            IN /\ Len(tasks[t].result) = 1
               /\ mine(tasks[t].result[1])
               /\ ~Rejected(c)
               /\ Resolved(c) => \E e \in SeqToSet(AllErrors(calls[c].result)) : mine(e)
               /\ (Quiescent /\ ~Resolved(c)) =>
                      \E o \in TasksOfCall(c) : tasks[o].state \in {"waiting", "running"}

\* the tasks the step launches under key k
Launched(k) == {n \in 1..Len(tasks') : n > Len(tasks) /\ tasks'[n].debounced /\ tasks'[n].key = k}

\* C6: when a debounced call arrives for a key whose previous call is still inside
\* its debounce window, the previous call's promise rejects, its timer is cleared
\* so that its validator is never invoked, and the new call's timer is armed.
DebounceCancelsPrevious ==
    [][\A t \in TaskIds :
          (tasks[t].debounced /\ tasks[t].state = "waiting" /\ Launched(tasks[t].key) # {}) =>
              /\ tasks'[t].promise = "rejected"
              /\ tasks'[t].state = "cleared"
              /\ \E n \in Launched(tasks[t].key) :
                    tasks'[n].state = "waiting" /\ tasks'[n].promise = "pending"]_vars

\* C7: of the debounced calls made for one key, only the most recent one can still
\* be pending (and so resolve): every earlier one has been settled, by rejection if
\* it was still pending when a later one arrived.
OnlyMostRecentCallPending ==
    \A t1, t2 \in TaskIds :
        (t1 < t2 /\ tasks[t1].debounced /\ tasks[t2].debounced /\ tasks[t1].key = tasks[t2].key) =>
            tasks[t1].promise # "pending"

\* C8: a validateAsync() call one of whose debounced rule calls was superseded does
\* not reject.
CancellationIsSwallowed ==
    \A c \in CallIds :
        (\E t \in TasksOfCall(c) : tasks[t].promise = "rejected") => ~Rejected(c)

\* field f of call c reaches its rules, and one of its sync rules throws
SyncRuleThrows(c, f) ==
    LET fieldDef == aschema.fields[f].def
        value == Get(calls[c].data, aschema.fields[f].name)
    IN /\ typeValidators(fieldDef.type, value, <<>>) = NoError
       /\ ~(fieldDef.required /\ requiredValidator(value, <<>>) # NoError)
       /\ ~(~fieldDef.required /\ OptionalEmpty(value))
       /\ \E k \in 1..Len(fieldDef.rules) :
             /\ ~fieldDef.rules[k].async
             /\ fieldDef.rules[k].type = "custom"
             /\ fieldDef.rules[k].params.validate = "throws"

\* C9: when a sync rule of a field throws during validateAsync(), the call does not
\* reject, and the result it resolves with has a hard ASYNC_VALIDATION_ERROR on
\* that field.
SyncThrowIsReported ==
    \A c \in CallIds : \A f \in 1..Len(calls[c].fields) :
        SyncRuleThrows(c, f) =>
            /\ ~Rejected(c)
            /\ Resolved(c) =>
                  \E i \in 1..Len(calls[c].result.hardErrors) :
                      /\ calls[c].result.hardErrors[i].field = <<aschema.fields[f].name>>
                      /\ calls[c].result.hardErrors[i].code = "ASYNC_VALIDATION_ERROR"

\* the errors of the async rules of one invocation, by position in the rule list
InRuleOrder(c, f, i) ==
    LET ids == TasksOf(c, f, i)
    IN Concat([k \in 1..Cardinality(ids) |->
                  tasks[CHOOSE t \in ids : Cardinality({o \in ids : o < t}) = k - 1].result])

\* the errors of the sync part of one invocation: type, required, sync rules
SyncPart(c, f, i) ==
    LET fieldDef == aschema.fields[f].def
        value == Get(calls[c].data, aschema.fields[f].name)
        path == <<aschema.fields[f].name>>
        fresh == [tasks |-> <<>>, cache |-> <<>>]
    IN IF i = 0
       THEN FieldStartAsync(fresh, c, <<f, 0>>, fieldDef, value, path).inv.errors
       ELSE FieldStartAsync(fresh, c, <<f, i>>, fieldDef.items[1], value.a[i],
                            ItemPath(path, i - 1)).inv.errors

\* the errors of a call in declaration order: field by field, a field's own errors
\* (sync rules, then async rules), then its items by index
DeclarationOrder(c) ==
    Concat([f \in 1..Len(calls[c].fields) |->
               SyncPart(c, f, 0) \o InRuleOrder(c, f, 0)
               \o Concat([i \in 1..Len(calls[c].items[f]) |->
                             SyncPart(c, f, i) \o InRuleOrder(c, f, i)])])

\* C10: the error lists of a validateAsync() result are the errors of the call in
\* declaration order, split by severity; they are a function of what each
\* validator reported and not of the order in which the validators finished.
AsyncErrorsInDeclarationOrder ==
    \A c \in CallIds :
        Resolved(c) =>
            /\ calls[c].result.hardErrors =
                  SelectSeq(DeclarationOrder(c), LAMBDA e : e.severity # "soft")
            /\ calls[c].result.softErrors =
                  SelectSeq(DeclarationOrder(c), LAMBDA e : e.severity = "soft")

\* a resolved call two of whose validators, both reporting a hard error on the same
\* field, finished in the order opposite to their declaration
FinishedOutOfOrder ==
    \E c \in CallIds :
        /\ Resolved(c)
        /\ \E t1, t2 \in TasksOfCall(c) :
              /\ t1 < t2
              /\ tasks[t1].owner = tasks[t2].owner
              /\ tasks[t1].result # <<>> /\ tasks[t2].result # <<>>
              /\ ~tasks[t1].soft /\ ~tasks[t2].soft
              /\ tasks[t1].finishedAs > tasks[t2].finishedAs

\* the invocation of validateFieldAsync on value gets as far as the rules
ReachesRules(fieldDef, value) ==
    /\ typeValidators(fieldDef.type, value, <<>>) = NoError
    /\ ~(fieldDef.required /\ requiredValidator(value, <<>>) # NoError)
    /\ ~(~fieldDef.required /\ OptionalEmpty(value))

\* the async rules of a rule list that the rules loop gets to
AsyncRulesOf(rules) ==
    {k \in 1..Len(rules) :
        /\ rules[k].async /\ rules[k].type = "refineAsync" /\ rules[k].params.validate # ""
        /\ \A j \in 1..(k - 1) :
              rules[j].async \/ rules[j].type # "custom" \/ rules[j].params.validate # "throws"}

\* C11: as soon as validateAsync() has returned its promise, the async rules of
\* every field that reaches its rules have been launched, whatever the state of
\* the validators of its siblings; and as soon as an array field has started its
\* items, the async rules of every item have been launched.  No sibling waits for
\* another sibling's validator.
SiblingsLaunchedTogether ==
    \A c \in CallIds :
        \A f \in 1..Len(calls[c].fields) :
            LET fieldDef == aschema.fields[f].def
                value == Get(calls[c].data, aschema.fields[f].name)
            IN /\ ReachesRules(fieldDef, value) =>
                     Cardinality(TasksOf(c, f, 0)) = Cardinality(AsyncRulesOf(fieldDef.rules))
               /\ calls[c].fields[f].phase = "items" =>
                     /\ Len(calls[c].items[f]) = Len(value.a)
                     /\ \A i \in 1..Len(value.a) :
                           ReachesRules(fieldDef.items[1], value.a[i]) =>
                               Cardinality(TasksOf(c, f, i)) =
                                   Cardinality(AsyncRulesOf(fieldDef.items[1].rules))

\* the validators of two siblings (two fields, or two items of an array) of one
\* call are running at the same time
SiblingsRunTogether ==
    \E t1, t2 \in TaskIds :
        /\ tasks[t1].call = tasks[t2].call
        /\ tasks[t1].owner # tasks[t2].owner
        /\ tasks[t1].state = "running" /\ tasks[t2].state = "running"

(***************************************************************************)
(* The two engines compared.                                               *)
(***************************************************************************)
\* what the claim compares of an error: field, path, code, severity
Essence(errors) ==
    [i \in 1..Len(errors) |->
        [field |-> errors[i].field, path |-> errors[i].path,
         code |-> errors[i].code, severity |-> errors[i].severity]]

\* C12: on a schema without async rules, validateAsync(S, D) resolves, and to the
\* result of validate(S, D): same valid, same hardErrors and softErrors (field,
\* path, code, severity, order).
AsyncEqualsSync ==
    (Returned_(result) /\ options = NoOptions) =>
        LET r == validateAsync(schema.definition, data)
        IN /\ ~r.threw
           /\ r.valid = result.valid
           /\ Essence(r.hardErrors) = Essence(result.hardErrors)
           /\ Essence(r.softErrors) = Essence(result.softErrors)

\* C13: validate(S, D, o) returns a ValidationResult; it never throws, whatever
\* the input, also when a value of the wrong runtime type meets a field with
\* preprocess or transforms.
ValidateNeverThrows == pc = "done" => ~result.threw

(***************************************************************************)
(* Type and REQUIRED errors.                                               *)
(***************************************************************************)
\* the errors of r reported at the path or below it, in the order of the result
ErrorsAt(r, path) ==
    SelectSeq(AllErrors(r), LAMBDA e : /\ Len(e.field) >= Len(path)
                                       /\ SubSeq(e.field, 1, Len(path)) = path)

\* the field is not one that step 1 lets through: null/undefined, permitted by
\* the nullable flags, not required
PastNullish(def, value) ==
    ~(/\ value \in {Null, Undefined}
      /\ def.nullish \/ (def.nullable /\ value = Null)
      /\ ~def.required)

\* the type check of the working value fails
TypeCheckFails(def, value, path) ==
    /\ PastNullish(def, value)
    /\ processedValueOf(def, value) # Thrown
    /\ typeValidators(def.type, processedValueOf(def, value), path) # NoError

\* the field is required and its working value is missing or empty, as the
\* nullable flags have it
RequiredAndMissing(def, value, path) ==
    /\ PastNullish(def, value)
    /\ processedValueOf(def, value) # Thrown
    /\ typeValidators(def.type, processedValueOf(def, value), path) = NoError
    /\ def.required
    /\ isMissing(def, processedValueOf(def, value))

\* the codes of the type validators' errors
TypeErrorCodes == {"INVALID_TYPE", "INVALID_DATE"}

\* r holds exactly one error at or below the path: a hard one of these codes
OnlyError(r, path, codes) ==
    /\ Len(ErrorsAt(r, path)) = 1
    /\ ErrorsAt(r, path)[1].code \in codes
    /\ ErrorsAt(r, path)[1].severity = "hard"
    /\ ErrorsAt(r, path)[1].field = path

HaltedWithOneError(def, value, path, r) ==
    /\ TypeCheckFails(def, value, path) => OnlyError(r, path, TypeErrorCodes)
    /\ RequiredAndMissing(def, value, path) => OnlyError(r, path, {"REQUIRED"})

RulesWouldFail(def, value, path) ==
    LET ruled == RulesLoop(def.rules, processedValueOf(def, value), path, <<>>)
    IN ~ruled.threw /\ ruled.errors # <<>>

RepeatedCallsAgree == [][pc' = "repeated" => result' = result]_vars

(***************************************************************************)
(* Schema interchange.                                                     *)
(***************************************************************************)
RECURSIVE FieldCarriesCallback(_)
\* the field definition, or one nested in it, holds a function
FieldCarriesCallback(def) ==
    \/ def.preprocess # ""
    \/ def.transforms # <<>>
    \/ \E i \in 1..Len(def.rules) : def.rules[i].params.validate # ""
    \/ def.items # <<>> /\ FieldCarriesCallback(def.items[1])
    \/ /\ def.schema # <<>>
       /\ \E i \in 1..Len(def.schema[1].fields) :
             FieldCarriesCallback(def.schema[1].fields[i].def)

CarriesCallback(schemaDef) ==
    \E i \in 1..Len(schemaDef.fields) : FieldCarriesCallback(schemaDef.fields[i].def)

\* C16: for a schema definition S that holds no function,
\* validate(JSON.parse(JSON.stringify(S)), D) returns what validate(S, D) returned.
RoundTripPreservesResult ==
    [][(pc' = "deserialized" /\ ~CarriesCallback(schema.definition)) => result' = result]_vars

(***************************************************************************)
(* The input of a call.                                                    *)
(***************************************************************************)
\* C17: a validation call leaves its input as it was: the data object and every
\* value reachable from it are the same after validate(S, D, o) as before.
InputUnchanged == [][data' = data]_vars

(***************************************************************************)
(* The validator registry.                                                 *)
(***************************************************************************)
\* what the contract makes of a name: the built-in rule, else the function
\* registered under it, else undefined
Resolves(name, registry) ==
    IF name \in BuiltinRules THEN [kind |-> "builtin", fn |-> name]
    ELSE IF name \in DOMAIN registry THEN [kind |-> "registered", fn |-> registry[name]]
    ELSE [kind |-> "undefined", fn |-> ""]

\* C18: getValidator(tag) is the built-in validator when tag names a built-in
\* rule, otherwise the function most recently registered under tag, otherwise
\* undefined; and a registerValidator call under one tag leaves what every
\* other tag resolves to as it was.
RegistryLookup ==
    /\ [](\A tag \in Tags : getValidator(tag) = Resolves(tag, customValidators))
    /\ [][\A name \in Tags, fn \in Validators :
            registerValidator(name, fn) =>
                /\ getValidator(name)' =
                      IF name \in BuiltinRules THEN [kind |-> "builtin", fn |-> name]
                      ELSE [kind |-> "registered", fn |-> fn]
                /\ \A other \in Tags \ {name} : getValidator(other)' = getValidator(other)]_vars

(***************************************************************************)
(* Error paths.                                                            *)
(***************************************************************************)
\* the field string split on "." and "[n]" boundaries: the names and the indices,
\* each a segment of its own
SplitOnDotsAndIndices(field) ==
    LET segments == SelectSeq(field, LAMBDA tok : tok \notin {".", "[", "]"})
    IN [i \in 1..Len(segments) |-> <<segments[i]>>]

\* C19: the path of every error of a result is the error's field split on "."
\* and "[n]" boundaries, array indices being segments of their own.
PathIsFieldSplit ==
    Returned_(result) =>
        \A e \in SeqToSet(AllErrors(result)) : e.path = SplitOnDotsAndIndices(e.field)

(***************************************************************************)
(* Schema composition.                                                     *)
(***************************************************************************)
\* what a SchemaBuilder object holds: its definition and its fields, each field
\* with the state of its builder object
SchemaView(bs, ss, s) ==
    [definition |-> ss[s].definition,
     passthrough |-> ss[s].passthrough,
     catchall |-> ss[s].catchall,
     _fields |-> [i \in 1..Len(ss[s]._fields) |->
                    [name |-> ss[s]._fields[i].name, builder |-> bs[ss[s]._fields[i].builder]]]]

\* C20: every composition operator leaves the definition and the fields of
\* every schema that existed before it was applied, its inputs among them,
\* exactly as they were.  (A step that adds a schema is the application of an
\* operator.)
CompositionIsPure ==
    [][Len(schemas') > Len(schemas) =>
          \A s \in SchemaIds :
              SchemaView(builders', schemas', s) = SchemaView(builders, schemas, s)]_vars

\* a schema derived from the first one, in which field a is optional and strict
\* is set, while the first schema still requires a and is not strict
DerivedSchemaDiffers ==
    /\ Len(schemas) = MaxSchemas
    /\ schemas[1].definition.fields[1].def.required
    /\ builders[schemas[1]._fields[1].builder]._required
    /\ ~schemas[1].definition.strict
    /\ \E d \in SchemaIds :
          /\ schemas[d].definition.strict
          /\ schemas[d]._fields # <<>>
          /\ schemas[d]._fields[1].name = "a"
          /\ ~schemas[d].definition.fields[1].def.required
          /\ ~builders[schemas[d]._fields[1].builder]._required

\* the names a definition declares, and the definition it holds for a name
DefNames(s) == {s.definition.fields[i].name : i \in 1..Len(s.definition.fields)}
FieldDef(s, name) ==
    (CHOOSE f \in SeqToSet(s.definition.fields) : f.name = name).def

\* the SchemaBuilder an operator has just returned
Latest == schemas[Len(schemas)]

\* the fields of s are those of a and b together, b's definition standing for
\* every name b declares
UnionSecondWins(s, a, b) ==
    /\ DefNames(s) = DefNames(a) \cup DefNames(b)
    /\ \A n \in DefNames(b) : FieldDef(s, n) = FieldDef(b, n)
    /\ \A n \in DefNames(a) \ DefNames(b) : FieldDef(s, n) = FieldDef(a, n)

\* C21: merge(a, b) has the union of the fields of a and b, with b's field
\* definition, whole, for a name of both; and extend(base, extra) yields the
\* definition of merge(base, schema(extra)).
MergeIsUnionSecondWins ==
    [][/\ \A a \in SchemaIds, b \in SchemaIds :
            merge(a, b) => UnionSecondWins(Latest', schemas[a], schemas[b])
       /\ \A base \in SchemaIds :
            extend(base, <<[name |-> "c", builder |-> 1]>>) =>
                LET extra == newSchema(builders, <<[name |-> "c", builder |-> 1]>>)
                IN /\ UnionSecondWins(Latest', schemas[base], extra)
                   /\ Latest'.definition =
                        newSchema(builders, Spread(schemas[base]._fields, extra._fields)).definition]_vars

\* C22: every field of partial(S).definition is optional and has the rules the
\* field has in S.definition, whatever builder calls or compositions came
\* between building S and calling partial; and partial(S) accepts {}.
PartialKeepsRules ==
    [][\A base \in SchemaIds :
          partial(base) =>
              /\ DefNames(Latest') = DefNames(schemas[base])
              /\ \A n \in DefNames(schemas[base]) :
                    /\ FieldDef(Latest', n).required = FALSE
                    /\ FieldDef(Latest', n).rules = FieldDef(schemas[base], n).rules
              /\ validate(Latest'.definition, Obj(<<>>), NoOptions).valid]_vars

RECURSIVE DeepPartialOf(_, _)
\* schema definition p is definition d with every field, at every depth,
\* optional, its rules and its nested schema kept
DeepPartialOf(p, d) ==
    /\ Len(p.fields) = Len(d.fields)
    /\ \A i \in 1..Len(d.fields) :
          LET pf == p.fields[i].def
              df == d.fields[i].def
          IN /\ p.fields[i].name = d.fields[i].name
             /\ pf.type = df.type
             /\ pf.required = FALSE
             /\ pf.rules = df.rules
             /\ (pf.schema = <<>>) = (df.schema = <<>>)
             /\ df.schema # <<>> => DeepPartialOf(pf.schema[1], df.schema[1])

\* C23: deepPartial(S) makes every field at every depth optional, keeping its
\* rules, and every object field at any depth keeps its nested schema.
DeepPartialReachesEveryDepth ==
    [][\A base \in SchemaIds :
          deepPartial(base) =>
              DeepPartialOf(Latest'.definition, schemas[base].definition)]_vars

\* s is base with the required flag of the fields named in keys set to flag,
\* and nothing else changed
OnlyRequiredChanged(s, base, keys, flag) ==
    /\ DefNames(s) = DefNames(base)
    /\ \A n \in DefNames(base) :
          FieldDef(s, n) = IF n \in keys
                           THEN [FieldDef(base, n) EXCEPT !.required = flag]
                           ELSE FieldDef(base, n)
    /\ s.definition.strict = base.definition.strict
    /\ s.passthrough = base.passthrough
    /\ s.catchall = base.catchall

\* every field of the schema is optional, as in the result of partial
AllOptional(s) == \A n \in DefNames(s) : ~FieldDef(s, n).required

\* value v passes the type check and the rules of field n of s
SatisfiesField(s, n, v) ==
    validate([fields |-> <<[name |-> n, def |-> FieldDef(s, n)]>>, strict |-> FALSE],
             Obj([k \in {n} |-> v]), NoOptions).valid

\* C24: required(S, keys) and optional(S, keys) change the required flag of the
\* named fields and nothing else; so required(partial(S), [x]) rejects {} and
\* accepts an input whose x satisfies x's rules.
RequiredChangesOnlyTheFlag ==
    [][\A base \in SchemaIds, keys \in KeyLists :
          /\ required(base, keys) =>
                /\ OnlyRequiredChanged(Latest', schemas[base], SetOf(keys), TRUE)
                /\ (AllOptional(schemas[base]) /\ SetOf(keys) \cap DefNames(schemas[base]) # {}) =>
                      /\ ~validate(Latest'.definition, Obj(<<>>), NoOptions).valid
                      /\ \A v \in {Str(<<"x", "y">>), Num(5)} :
                            (Len(keys) = 1 /\ SatisfiesField(Latest', keys[1], v)) =>
                                validate(Latest'.definition,
                                         Obj([k \in {keys[1]} |-> v]), NoOptions).valid
          /\ optional(base, keys) =>
                OnlyRequiredChanged(Latest', schemas[base], SetOf(keys), FALSE)]_vars

\* the invocations of validate(schema, data, opts)
Invoked(opts) == SchemaInvoked(schema.definition.fields, data, <<>>, opts)

\* C25: with abortEarly, nothing is invoked after the rule validator that
\* produced the first hard error: no rule validator, no nested-schema
\* validation, no array-item validation, in this field or a later one.
AbortEarlyHaltsAtOnce ==
    [][\A opts \in OptionsSet :
          (Validate(opts) /\ opts.abortEarly /\ opts.errorMap = "") =>
              \A i \in 1..Len(Invoked(opts)) :
                  Invoked(opts)[i].hard => i = Len(Invoked(opts))]_vars

\* two different debounced calls made under one key
SameKey(t1, t2) ==
    t1 # t2 /\ tasks[t1].debounced /\ tasks[t2].debounced /\ tasks[t1].key = tasks[t2].key

\* C26: at every moment there is at most one pending timer/promise pair per key:
\* never two unsettled debounced promises, two armed timers or two running
\* validators for the same key.
OnePendingPairPerKey ==
    \A t1 \in TaskIds, t2 \in TaskIds :
        SameKey(t1, t2) =>
            /\ ~(tasks[t1].promise = "pending" /\ tasks[t2].promise = "pending")
            /\ ~(tasks[t1].state = "waiting" /\ tasks[t2].state = "waiting")
            /\ ~(tasks[t1].state = "running" /\ tasks[t2].state = "running")

\* C27: when the validator of a superseded debounced call finishes, the registry
\* entry of the call that superseded it, and that call's timer and promise, are
\* left as they were.
LateCompletionLeavesRegistry ==
    [][\A t \in TaskIds :
          (/\ tasks[t].debounced
           /\ tasks[t].state = "running" /\ tasks'[t].state = "finished"
           /\ tasks[t].key \in DOMAIN debounceCache
           /\ debounceCache[tasks[t].key] # t) =>
              /\ tasks[t].key \in DOMAIN debounceCache'
              /\ debounceCache'[tasks[t].key] = debounceCache[tasks[t].key]
              /\ tasks'[debounceCache[tasks[t].key]] = tasks[debounceCache[tasks[t].key]]]_vars

\* C28: debounced calls are keyed by field path and rule identity: a debounced
\* call is displaced only by a later validateAsync call (never by another rule
\* of the same field in the same call, never by a call on another key), and a
\* call that resolved has run every one of its validators.
RulesDoNotDisplaceEachOther ==
    /\ \A t \in TaskIds :
          (tasks[t].debounced /\ (tasks[t].promise = "rejected" \/ tasks[t].state = "cleared")) =>
              \E n \in TaskIds :
                  /\ n > t
                  /\ tasks[n].key = tasks[t].key
                  /\ tasks[n].call # tasks[t].call
    /\ \A c \in CallIds :
          Resolved(c) => \A t \in TasksOfCall(c) : tasks[t].state = "finished"

RECURSIVE ByRule(_, _, _, _, _)
\* the errors of a field's rules, rule by rule in declaration order: a sync rule's
\* error is what its validator returns, the k-th launched async rule's error is
\* the k-th of results
ByRule(rules, value, path, results, k) ==
    IF rules = <<>> THEN <<>>
    ELSE LET rule == Head(rules)
             validator == getValidator(rule.type)
             r == CallValidator(validator, value, RuleParams(rule), path)
         IN CASE rule.async /\ rule.type = "refineAsync" /\ rule.params.validate # "" ->
                    results[k] \o ByRule(Tail(rules), value, path, results, k + 1)
              [] rule.async /\ rule.type = "refineAsync" ->
                    ByRule(Tail(rules), value, path, results, k)
              [] validator.kind = "undefined" ->
                    ByRule(Tail(rules), value, path, results, k)
              [] OTHER ->
                    (IF r.error # NoError THEN <<WithSplitPath(r.error[1], path)>> ELSE <<>>)
                    \o ByRule(Tail(rules), value, path, results, k)

\* C29: within hardErrors and within softErrors of a validateAsync() result, the
\* errors of one field are in the declaration order of the rules that produced
\* them, for every mix of sync and async rules on the field.
RulesApplyInDeclarationOrder ==
    \A c \in CallIds :
        Resolved(c) =>
            \A f \in 1..Len(aschema.fields) :
                LET fieldDef == aschema.fields[f].def
                    value == Get(calls[c].data, aschema.fields[f].name)
                    path == <<aschema.fields[f].name>>
                    mine == SelectSeq(tasks, LAMBDA t : t.call = c /\ t.owner = <<f, 0>>)
                    expected == ByRule(fieldDef.rules, value, path,
                                       [k \in 1..Len(mine) |-> mine[k].result], 1)
                    OfField(errors) == SelectSeq(errors, LAMBDA e : e.field = path)
                IN ReachesRules(fieldDef, value) =>
                      /\ OfField(calls[c].result.hardErrors) =
                            SelectSeq(expected, LAMBDA e : e.severity # "soft")
                      /\ OfField(calls[c].result.softErrors) =
                            SelectSeq(expected, LAMBDA e : e.severity = "soft")

\* C30: every validateAsync() call eventually settles (resolves or rejects), even
\* if a validator never settles, in every interleaving with other calls.
EveryCallSettles ==
    \A c \in 1..MaxCalls :
        (c \in CallIds) ~> (c \in CallIds /\ calls[c].status # "pending")

\* a settled call one of whose validators never settled, with another call made
\* while it was pending
SettledDespiteHangingValidator ==
    \E c \in CallIds :
        /\ calls[c].status # "pending"
        /\ Len(calls) > 1
        /\ \E t \in TasksOfCall(c) : tasks[t].callback = "hangs" /\ tasks[t].timedOut

====
